---- MODULE Spec2Model ----
(***************************************************************************)
(* State-machine model of Win32Main.cpp: the window procedure, the run     *)
(* loop, the Direct3D 12 initialisation, OnResize, SetMsaaEnabled, Draw    *)
(* and the fence protocol of FlushCommandQueue.  The CPU is one thread     *)
(* with a call stack (pc, stack); the GPU is a second actor that consumes  *)
(* the command queue in order.  Every HRESULT the code tests is an input:  *)
(* an API call may fail, at most MaxFailures times in one run.             *)
(***************************************************************************)
EXTENDS Integers, Sequences, FiniteSets, TLC

\* ------------------------------------------------------------- bounds
\* number of frames, resizes and MSAA toggles the message loop starts
MaxOps == 2
\* number of API calls that may fail in one run
MaxFailures == 1
\* CalcConstantBufferByteSize is called with the byte sizes up to this one
\* and with those this close to the largest UINT
MaxByteSize == 1100
\* length of the arrays the upload is checked with
MaxLen == 2
\* mouse messages the window receives
MaxMouse == 3

\* ---------------------------------------------------- program constants
s_SwapChainBufferCount == 2
MinTrackSize == 200
MsaaSampleCount == 4
\* sizeof(ObjectConstants): one XMFLOAT4X4
SizeofObjectConstants == 64
U16 == 256 * 256

\* client-area sizes a restored or maximized window may report in WM_SIZE
\* (the window is created with a client area of 800 x 600)
ClientSizes == { <<300, 250>> }
\* NumQualityLevels values CheckFeatureSupport may report
QualityLevels == { 0, 1 }

VARIABLES
    pc,          \* position of the CPU thread
    stack,       \* labels the running functions return to
    g_DxApp,     \* the global DxApp struct
    gpu,         \* command queue contents, fence value, completion event
    window,      \* [alive, quitPosted, wParam, exitCode]: the window, the
                 \* WM_QUIT of the message queue, the value Run returned
    enabled,     \* << e >> while SetMsaaEnabled(e) runs, << >> otherwise
    nextId,      \* identity given to the next resource created
    build,       \* "any" until a failed assert tells the builds apart: "debug"
                 \* (assert compiled in, the process aborts) or "release" (NDEBUG)
    failures,    \* API failures so far
    flushedInOp, \* a flush returned since OnResize/SetMsaaEnabled was entered
    lastSignalArg, \* value passed to the latest Signal call
    idxHist,     \* back-buffer index after each Present since the last resize
    ops,         \* frames, resizes and MSAA toggles started by the message loop
    source,      \* [vertices, indices]: the arrays BuildBoxGeometry uploads
    calc,        \* [byteSize, result]: a call of CalcConstantBufferByteSize
    camera,      \* m_Theta, m_Phi, m_Radius, m_LastMousePos and the mouse events so far
    recorded,    \* the commands recorded in m_CommandList and not yet handed
                 \* to the queue
    heaps,       \* the resources the descriptors of m_RtvHeap and m_DsvHeap describe
    fenceAtEntry \* << m_CurrentFence >> at the entry of the OnResize that runs

vars == << pc, stack, g_DxApp, gpu, window, enabled, nextId, build,
           failures, flushedInOp, lastSignalArg, idxHist, ops, source, calc,
           camera, recorded, heaps, fenceAtEntry >>

\* --------------------------------------------------------- data values
NullSwapChain == [ id |-> 0, count |-> 0, w |-> 0, h |-> 0,
                   sample |-> << 0, << 0, 0 >> >>, cur |-> 0, bufs |-> [ i \in { 0, 1 } |-> 0 ] ]
NullResource == [ id |-> 0, w |-> 0, h |-> 0, sample |-> << 0, << 0, 0 >> >> ]
NullHandles == [ i \in 0 .. s_SwapChainBufferCount - 1 |-> 0 ]

\* a UINT as two 16-bit limbs << high, low >>
U32(n) == << n \div U16, n % U16 >>
\* UINT subtraction of one, wrapping at 2^32
U32Dec(x) == IF x[2] > 0 THEN << x[1], x[2] - 1 >>
             ELSE IF x[1] > 0 THEN << x[1] - 1, U16 - 1 >>
             ELSE << U16 - 1, U16 - 1 >>

\* SampleDesc.Count and SampleDesc.Quality for the current MSAA state
SampleDesc(app) ==
    IF app.m_MsaaEnabled THEN << MsaaSampleCount, U32Dec(U32(app.m_4xMsaaQuality)) >>
    ELSE << 1, U32(0) >>

RECURSIVE GCD(_, _)
GCD(a, b) == IF b = 0 THEN a ELSE GCD(b, a % b)

\* static_cast<float>(m_ClientWidth) / m_ClientHeight as a reduced fraction;
\* << 1, 0 >> is the infinity and << 0, 0 >> the NaN of a division by zero
AspectRatio(app) ==
    LET w == app.m_ClientWidth
        h == app.m_ClientHeight
    IN  IF h = 0 THEN << IF w = 0 THEN 0 ELSE 1, 0 >>
        ELSE << w \div GCD(w, h), h \div GCD(w, h) >>

IdentityProj == [ kind |-> "identity", aspect |-> << 1, 1 >> ]

\* UINT addition of n < 2^16, wrapping at 2^32
U32Add(x, n) == << (x[1] + ((x[2] + n) \div U16)) % U16, (x[2] + n) % U16 >>

\* the colours of the cube's corners, in the order of the vertex array
Colors == << "White", "Black", "Red", "Green", "Blue", "Yellow", "Cyan", "Magenta" >>

\* one Vertex in memory, packed into a number: a bit per coordinate (-1 or
\* +1) below the colour's position in Colors
Vertex(x, y, z, color) ==
    8 * (CHOOSE i \in 1 .. Len(Colors) : Colors[i] = color)
    + 4 * ((x + 1) \div 2) + 2 * ((y + 1) \div 2) + ((z + 1) \div 2)

\* the three 16-bit indices of one triangle in memory, packed into a number
Triangle(i0, i1, i2) == 64 * i0 + 8 * i1 + i2

\* the vertex array and the index array of BuildBoxGeometry
CubeVertices ==
    << Vertex(-1, -1, -1, "White"), Vertex(-1, 1, -1, "Black"),
       Vertex(1, 1, -1, "Red"), Vertex(1, -1, -1, "Green"),
       Vertex(-1, -1, 1, "Blue"), Vertex(-1, 1, 1, "Yellow"),
       Vertex(1, 1, 1, "Cyan"), Vertex(1, -1, 1, "Magenta") >>
CubeIndices ==
    << Triangle(0, 1, 2), Triangle(0, 2, 3), Triangle(4, 6, 5), Triangle(4, 7, 6),
       Triangle(4, 5, 1), Triangle(4, 1, 0), Triangle(3, 2, 6), Triangle(3, 6, 7),
       Triangle(1, 5, 6), Triangle(1, 6, 2), Triangle(4, 0, 3), Triangle(4, 3, 7) >>

\* an upload-heap resource and the bytes the CPU wrote into it
NullUploader == [ exists |-> FALSE, bytes |-> << >> ]
\* an UploadBuffer<ObjectConstants> behind a null unique_ptr
NullObjectCB == [ ptr |-> FALSE, m_UploadBuffer |-> FALSE, m_MappedData |-> FALSE,
                  m_ElementByteSize |-> << 0, 0 >> ]
\* a MeshGeometry behind a null unique_ptr
NullMeshGeometry ==
    [ ptr |-> FALSE,
      m_VertexBufferGPU |-> FALSE, m_IndexBufferGPU |-> FALSE,
      m_VertexBufferUploader |-> NullUploader,
      m_IndexBufferUploader |-> NullUploader ]

\* ------------------------------------------------------- initial state
InitDxApp ==
    [ m_DxgiFactory |-> FALSE,
      m_D3dDevice |-> FALSE,
      m_Fence |-> FALSE,
      m_CurrentFence |-> 0,
      m_CommandQueue |-> FALSE,
      m_DirectCommandListAllocator |-> FALSE,
      m_CommandList |-> "null",
      m_SwapChain |-> NullSwapChain,
      m_CurrentBackBuffer |-> 0,
      m_SwapChainBuffer |-> NullHandles,
      m_DepthStencilBuffer |-> NullResource,
      m_ScreenViewport |-> << 0, 0, 0, 0 >>,
      m_ScissorRect |-> << 0, 0, 0, 0 >>,
      m_RtvHeap |-> FALSE,
      m_DsvHeap |-> FALSE,
      m_4xMsaaQuality |-> 0,
      m_MsaaEnabled |-> FALSE,
      m_TimerStopped |-> FALSE,
      m_IsPaused |-> FALSE,
      m_ClientWidth |-> 800,
      m_ClientHeight |-> 600,
      m_IsResizing |-> FALSE,
      m_IsMinimized |-> FALSE,
      m_IsMaximized |-> FALSE,
      m_CbvHeap |-> FALSE,
      m_ObjectCB |-> NullObjectCB,
      m_BoxGeo |-> NullMeshGeometry,
      m_VsByteCode |-> FALSE,
      m_PsByteCode |-> FALSE,
      m_PSO |-> NullResource,
      m_Proj |-> IdentityProj ]

\* vram: the contents of the GPU-local vertex and index buffers; states: the
\* state of every resource an executed barrier has taken out of the state it
\* was created in; hazard: the commands that ran on a resource that was
\* released or not in the state they need
InitGpu == [ queue |-> << >>, completed |-> 0, signaled |-> 0,
             event |-> "none", target |-> 0,
             vram |-> [ vb |-> << >>, ib |-> << >> ],
             states |-> << >>, hazard |-> { } ]

\* the arrays the source builds the cube from
InitSource == [ vertices |-> CubeVertices, indices |-> CubeIndices ]
\* no call of CalcConstantBufferByteSize made yet
InitCalc == [ byteSize |-> U32(0), result |-> U32(0), called |-> FALSE ]

\* the angles in millionths of a radian, the radius in two-hundredths of a
\* unit (one pixel of a drag with the right button)
Pi == 3141593
InitCamera ==
    [ m_Theta |-> 4712389, m_Phi |-> 785398, m_Radius |-> 1000,
      m_LastMousePos |-> << 0, 0 >>, events |-> 0 ]

\* descriptor heaps: no view created yet
InitHeaps == [ rtv |-> [ i \in 0 .. s_SwapChainBufferCount - 1 |-> 0 ], dsv |-> 0 ]

\* no window, MSG msg = { 0 }, Run has not returned
InitWindow == [ alive |-> FALSE, quitPosted |-> FALSE, wParam |-> 0, exitCode |-> << >> ]

\* the program before WinMain runs
InitProgram ==
    /\ pc = "WinMain"
    /\ stack = << >>
    /\ g_DxApp = InitDxApp
    /\ gpu = InitGpu
    /\ window = InitWindow
    /\ enabled = << >>
    /\ nextId = 1
    /\ build = "any"
    /\ failures = 0
    /\ flushedInOp = FALSE
    /\ lastSignalArg = 0
    /\ idxHist = << 0 >>
    /\ ops = 0
    /\ camera = InitCamera
    /\ recorded = << >>
    /\ heaps = InitHeaps
    /\ fenceAtEntry = << >>

Init ==
    /\ InitProgram
    /\ source = InitSource
    /\ calc = InitCalc

\* ------------------------------------------------------------- helpers
\* outcomes of an API call that returns an HRESULT (TRUE: SUCCEEDED)
ApiOutcomes == IF failures < MaxFailures THEN { TRUE, FALSE } ELSE { TRUE }
Charge(ok) == failures' = IF ok THEN failures ELSE failures + 1

Call(f, ret) == /\ pc' = f
                /\ stack' = << ret >> \o stack
Goto(l) == /\ pc' = l
           /\ stack' = stack

\* assert(cond) in build b: a true condition tells nothing about the build; a
\* false one aborts the debug build and is compiled out of the release build,
\* which the run then is for good
AfterAssert(cond, b) ==
    IF cond THEN build
    ELSE IF build = "any" THEN b
    ELSE build

\* a function returns to the label on top of the stack; a handler that
\* returns to the message loop ends the operation flushedInOp tracks
Return == /\ pc' = Head(stack)
          /\ stack' = Tail(stack)
          /\ flushedInOp' = IF Head(stack) = "Run" THEN FALSE ELSE flushedInOp

Terminal == { "exited", "abort", "crash" }

\* submitted command lists the GPU has not finished
GpuBusy == \E i \in 1 .. Len(gpu.queue) : gpu.queue[i].kind = "cmds"

\* a submitted command list: where it was recorded, the buffers its copy
\* commands fill from their upload resources, and its commands
Cmds(src, copies, list) ==
    [ kind |-> "cmds", v |-> 0, src |-> src, copies |-> copies, list |-> list ]
SignalCmd(v) == [ kind |-> "signal", v |-> v, src |-> "", copies |-> { }, list |-> << >> ]

\* ------------------------------------------------------ pure operators
\* a constant buffer that is one element too large
CalcConstantBufferByteSize_Plus256(byteSize) ==
    LET y == U32Add(byteSize, 256) IN << y[1], y[2] - (y[2] % 256) >>

\* (byteSize + 255) & ~255 on UINT
CalcConstantBufferByteSize(byteSize) ==
    LET y == U32Add(byteSize, 255) IN << y[1], y[2] - (y[2] % 256) >>

\* a call of CalcConstantBufferByteSize and what it returned
Called(byteSize) ==
    [ byteSize |-> byteSize, result |-> CalcConstantBufferByteSize(byteSize),
      called |-> TRUE ]

\* UploadBuffer<ObjectConstants>(device, 1, true): the element size is
\* computed first; the constructor returns early when the resource cannot be
\* created or mapped
UploadBuffer(elementByteSize, created, mapped) ==
    [ ptr |-> TRUE, m_UploadBuffer |-> created, m_MappedData |-> created /\ mapped,
      m_ElementByteSize |-> elementByteSize ]

\* the size of an array in memory units: a unit holds one element (a vertex
\* of the vertex array, a triangle of the index array)
ByteSize(data) == Len(data)

\* a committed buffer of byteSize units, zeroed at creation
Buffer(byteSize) == [ i \in 1 .. byteSize |-> 0 ]

\* UpdateSubresources<1>: the memcpy of byteSize units of initData into the
\* mapped upload heap
UploadContents(initData, byteSize) == [ i \in 1 .. byteSize |-> initData[i] ]

\* the copy from the upload heap into the default buffer, done by the GPU
CopyBufferRegion(dst, src, byteSize) ==
    [ i \in 1 .. Len(dst) |-> IF i <= byteSize THEN src[i] ELSE dst[i] ]

\* D3D12_RESOURCE_STATE_PRESENT is the same value as D3D12_RESOURCE_STATE_COMMON
STATE_PRESENT == "COMMON"

\* the resource a command names: a texture by its identity, the buffer a
\* CreateDefaultBuffer call created by its role
Texture(id) == [ kind |-> "texture", id |-> id ]
DefaultBuffer == [ kind |-> "defaultBuffer", id |-> 0 ]

\* cmdList->ResourceBarrier(1, &CD3DX12_RESOURCE_BARRIER::Transition(res, before, after))
Transition(res, before, after) ==
    [ op |-> "ResourceBarrier", res |-> res, before |-> before, after |-> after,
      bytes |-> 0 ]

\* UpdateSubresources<1>: the command it records, a copy of byteSize units
\* from the upload heap into the destination
RecordedCopy(res, byteSize) ==
    [ op |-> "CopyBufferRegion", res |-> res, before |-> "", after |-> "",
      bytes |-> byteSize ]

\* the three commands CreateDefaultBuffer records for the buffer it created
DefaultBufferCommands(byteSize) ==
    << Transition(DefaultBuffer, "COMMON", "COPY_DEST"),
       RecordedCopy(DefaultBuffer, byteSize),
       Transition(DefaultBuffer, "COPY_DEST", "GENERIC_READ") >>

\* the commands of a CreateDefaultBuffer call as the caller's list holds
\* them: the buffer is the caller's vertex or index buffer
Named(commands, kind) ==
    [ i \in 1 .. Len(commands) |-> [ commands[i] EXCEPT !.res.kind = kind ] ]

\* a CreateDefaultBuffer that leaves the buffer in the copy-destination state
CreateDefaultBuffer_NoFinalTransition(initData, byteSize, outcome) ==
    [ defaultBuffer |-> outcome = "ok",
      uploadBuffer |-> IF outcome = "ok"
                       THEN [ exists |-> TRUE,
                              bytes |-> UploadContents(initData, byteSize) ]
                       ELSE NullUploader,
      commands |-> IF outcome = "ok"
                   THEN SubSeq(DefaultBufferCommands(byteSize), 1, 2) ELSE << >> ]

\* a CreateDefaultBuffer that hands back no upload resource
CreateDefaultBuffer_NoUploader(initData, byteSize, outcome) ==
    [ defaultBuffer |-> outcome = "ok",
      uploadBuffer |-> NullUploader,
      commands |-> IF outcome = "ok" THEN DefaultBufferCommands(byteSize) ELSE << >> ]

\* a CreateDefaultBuffer that does not hand the data to UpdateSubresources
CreateDefaultBuffer_NoData(initData, byteSize, outcome) ==
    [ defaultBuffer |-> outcome = "ok",
      uploadBuffer |-> IF outcome = "ok"
                       THEN [ exists |-> TRUE, bytes |-> Buffer(byteSize) ]
                       ELSE NullUploader,
      commands |-> IF outcome = "ok" THEN DefaultBufferCommands(byteSize) ELSE << >> ]

\* CreateDefaultBuffer: nullptr when the default heap resource cannot be
\* created (the upload resource is then not created) or when the upload heap
\* resource cannot; otherwise the default buffer and the upload resource
\* holding the data, with the two transitions and the copy between them
\* recorded
CreateDefaultBuffer(initData, byteSize, outcome) ==
    [ defaultBuffer |-> outcome = "ok",
      uploadBuffer |-> IF outcome = "ok"
                       THEN [ exists |-> TRUE,
                              bytes |-> UploadContents(initData, byteSize) ]
                       ELSE NullUploader,
      commands |-> IF outcome = "ok" THEN DefaultBufferCommands(byteSize) ELSE << >> ]

CreateDefaultBufferOutcomes == { "ok", "noDefaultBuffer", "noUploadBuffer" }

\* MeshGeometry::DisposeUploaders
DisposeUploaders(geo) ==
    [ geo EXCEPT !.m_VertexBufferUploader = NullUploader,
                 !.m_IndexBufferUploader = NullUploader ]

\* the buffers whose copy commands the open command list holds
RecordedCopies(geo) ==
    { b \in { "vb", "ib" } :
        IF b = "vb" THEN geo.m_VertexBufferGPU ELSE geo.m_IndexBufferGPU }

\* the window is destroyed and PostQuitMessage(nExitCode) has put WM_QUIT
\* with that wParam into the queue
PostQuitMessage(w, nExitCode) ==
    [ w EXCEPT !.alive = FALSE, !.quitPosted = TRUE, !.wParam = nExitCode ]

\* a Run that returns msg.message, which is WM_QUIT
RunReturn_Message(w) == << 18 >>

\* return (int)msg.wParam
RunReturn(w) == << w.wParam >>

\* a flush that leaves the counter alone
NextFence_Same(f) == f

\* m_CurrentFence++
NextFence(f) == f + 1

\* a Signal one ahead of the counter
SignalTarget_Ahead(app) == app.m_CurrentFence + 1

\* the value FlushCommandQueue passes to Signal and to SetEventOnCompletion
SignalTarget(app) == app.m_CurrentFence

\* a SetMsaaEnabled without the test
MsaaChanged_Always(app, e) == TRUE

\* the test at the head of SetMsaaEnabled
MsaaChanged(app, e) == app.m_MsaaEnabled # e

\* an index that wraps one buffer late
NextBackBuffer_Late(i) == (i + 1) % (s_SwapChainBufferCount + 1)

\* (m_CurrentBackBuffer + 1) % s_SwapChainBufferCount
NextBackBuffer(i) == (i + 1) % s_SwapChainBufferCount

\* a viewport with width and height exchanged
Viewport_Swapped(app) == << 0, 0, app.m_ClientHeight, app.m_ClientWidth >>

\* m_ScreenViewport as << TopLeftX, TopLeftY, Width, Height >>
Viewport(app) == << 0, 0, app.m_ClientWidth, app.m_ClientHeight >>

\* m_ScissorRect as << left, top, right, bottom >>
ScissorRect(app) == << 0, 0, app.m_ClientWidth, app.m_ClientHeight >>

\* CurrentBackBuffer(): the handle at the tracked index
CurrentBackBuffer(app) == app.m_SwapChainBuffer[app.m_CurrentBackBuffer]

\* CurrentBackBufferView(): the descriptor of m_RtvHeap at the tracked index,
\* given as the resource that descriptor describes
CurrentBackBufferView(app, h) == h.rtv[app.m_CurrentBackBuffer]

\* DepthStencilView(): the first descriptor of m_DsvHeap
DepthStencilView(h) == h.dsv

\* a command that names a resource through a view of it
ViewCommand(op, id) ==
    [ op |-> op, res |-> Texture(id), before |-> "", after |-> "", bytes |-> 0 ]

\* a frame whose second transition names the buffer after the current one
DrawCommands_NextBuffer(app, h) ==
    << Transition(Texture(CurrentBackBuffer(app)), STATE_PRESENT, "RENDER_TARGET"),
       ViewCommand("ClearRenderTargetView", CurrentBackBufferView(app, h)),
       ViewCommand("ClearDepthStencilView", DepthStencilView(h)),
       ViewCommand("OMSetRenderTargets", CurrentBackBufferView(app, h)),
       Transition(Texture(app.m_SwapChainBuffer[
                      (app.m_CurrentBackBuffer + 1) % s_SwapChainBufferCount]),
                  "RENDER_TARGET", STATE_PRESENT) >>

\* the commands of a frame that name a resource: the transition of the back
\* buffer to render target, the two clears, the binding of the render target
\* (with the depth view the clear before it names) and the transition back
DrawCommands(app, h) ==
    << Transition(Texture(CurrentBackBuffer(app)), STATE_PRESENT, "RENDER_TARGET"),
       ViewCommand("ClearRenderTargetView", CurrentBackBufferView(app, h)),
       ViewCommand("ClearDepthStencilView", DepthStencilView(h)),
       ViewCommand("OMSetRenderTargets", CurrentBackBufferView(app, h)),
       Transition(Texture(CurrentBackBuffer(app)), "RENDER_TARGET", STATE_PRESENT) >>

\* a loop that creates every view in the first descriptor of the heap
RenderTargetViews_NoOffset(h, app, k) ==
    IF k = 0 THEN h ELSE [ h EXCEPT !.rtv[0] = app.m_SwapChain.bufs[k - 1] ]

\* the loop of OnResize over the first k buffers: CreateRenderTargetView of
\* buffer i into descriptor i of m_RtvHeap
RenderTargetViews(h, app, k) ==
    [ h EXCEPT !.rtv = [ i \in 0 .. s_SwapChainBufferCount - 1 |->
                           IF i < k THEN app.m_SwapChain.bufs[i] ELSE @[i] ] ]

\* CreateSwapChain: the previous swap chain is released first; the new one
\* takes the client size, the buffer count and the current sample settings
CreateSwapChain(app, ok) ==
    IF ok
    THEN [ app EXCEPT !.m_SwapChain =
             [ id |-> nextId, count |-> s_SwapChainBufferCount,
               w |-> app.m_ClientWidth, h |-> app.m_ClientHeight,
               sample |-> SampleDesc(app), cur |-> 0,
               bufs |-> [ i \in 0 .. s_SwapChainBufferCount - 1 |-> nextId + 1 + i ] ] ]
    ELSE [ app EXCEPT !.m_SwapChain = NullSwapChain ]

\* ------------------------------------------------------------- startup
\* WinMain / InitWindowsApp: RegisterClass and CreateWindow; CreateWindow
\* delivers WM_CREATE, which sets g_MainWnd and enters InitD3D
WinMain ==
    /\ pc = "WinMain"
    /\ UNCHANGED << source, calc, camera >>
    /\ UNCHANGED << recorded, heaps, fenceAtEntry >>
    /\ \E ok \in ApiOutcomes :
          /\ Charge(ok)
          /\ window' = [ window EXCEPT !.alive = ok ]
          /\ Goto(IF ok THEN "InitD3D" ELSE "exited")
    /\ UNCHANGED << g_DxApp, gpu, enabled, nextId, build, flushedInOp,
                    lastSignalArg, idxHist, ops >>

\* a step of InitD3D that failed: InitD3D returns false
InitFailed == "WM_CREATE_failed"

\* CreateDXGIFactory1
InitD3D_Factory ==
    /\ pc = "InitD3D"
    /\ UNCHANGED << source, calc, camera >>
    /\ UNCHANGED << recorded, heaps, fenceAtEntry >>
    /\ \E ok \in ApiOutcomes :
          /\ Charge(ok)
          /\ g_DxApp' = [ g_DxApp EXCEPT !.m_DxgiFactory = ok ]
          /\ Goto(IF ok THEN "InitD3D_device" ELSE InitFailed)
    /\ UNCHANGED << gpu, window, enabled, nextId, build, flushedInOp,
                    lastSignalArg, idxHist, ops >>

\* D3D12CreateDevice on the default adapter, else on the WARP adapter:
\* r is the number of calls that failed (0: hardware device, 1: WARP device,
\* 2: no WARP adapter or no WARP device)
InitD3D_Device ==
    /\ pc = "InitD3D_device"
    /\ UNCHANGED << source, calc, camera >>
    /\ UNCHANGED << recorded, heaps, fenceAtEntry >>
    /\ \E r \in 0 .. 2 :
          /\ failures + r <= MaxFailures
          /\ failures' = failures + r
          /\ g_DxApp' = [ g_DxApp EXCEPT !.m_D3dDevice = (r < 2) ]
          /\ Goto(IF r < 2 THEN "InitD3D_fence" ELSE InitFailed)
    /\ UNCHANGED << gpu, window, enabled, nextId, build, flushedInOp,
                    lastSignalArg, idxHist, ops >>

\* CreateFence(0, ...)
InitD3D_Fence ==
    /\ pc = "InitD3D_fence"
    /\ UNCHANGED << source, calc, camera >>
    /\ UNCHANGED << recorded, heaps, fenceAtEntry >>
    /\ \E ok \in ApiOutcomes :
          /\ Charge(ok)
          /\ g_DxApp' = [ g_DxApp EXCEPT !.m_Fence = ok ]
          /\ gpu' = [ gpu EXCEPT !.completed = 0 ]
          /\ Goto(IF ok THEN "InitD3D_msaa" ELSE InitFailed)
    /\ UNCHANGED << window, enabled, nextId, build, flushedInOp,
                    lastSignalArg, idxHist, ops >>

\* CheckFeatureSupport(MULTISAMPLE_QUALITY_LEVELS) and the assert on its result
InitD3D_Msaa ==
    /\ pc = "InitD3D_msaa"
    /\ UNCHANGED << source, calc, camera >>
    /\ UNCHANGED << recorded, heaps, fenceAtEntry >>
    /\ \E ok \in ApiOutcomes, n \in QualityLevels, b \in { "debug", "release" } :
          /\ Charge(ok)
          /\ g_DxApp' = [ g_DxApp EXCEPT !.m_4xMsaaQuality = IF ok THEN n ELSE 0 ]
          /\ build' = AfterAssert(~ok \/ n > 0, b)
          /\ Goto(IF ~ok THEN InitFailed
                  ELSE IF build' = "debug" THEN "abort"
                  ELSE "CreateCommandObjects")
    /\ UNCHANGED << gpu, window, enabled, nextId, flushedInOp,
                    lastSignalArg, idxHist, ops >>

\* CreateCommandObjects: queue, allocator, list (closed at once); k is the
\* number of objects created before a call failed
CreateCommandObjects ==
    /\ pc = "CreateCommandObjects"
    /\ UNCHANGED << source, calc, camera >>
    /\ UNCHANGED << recorded, heaps, fenceAtEntry >>
    /\ \E k \in 0 .. 3 :
          /\ k < 3 => failures < MaxFailures
          /\ failures' = IF k < 3 THEN failures + 1 ELSE failures
          /\ g_DxApp' = [ g_DxApp EXCEPT
                            !.m_CommandQueue = (k >= 1),
                            !.m_DirectCommandListAllocator = (k >= 2),
                            !.m_CommandList = IF k = 3 THEN "closed" ELSE "null" ]
          /\ Goto(IF k = 3 THEN "InitD3D_swapChain" ELSE InitFailed)
    /\ UNCHANGED << gpu, window, enabled, nextId, build, flushedInOp,
                    lastSignalArg, idxHist, ops >>

\* InitD3D calling CreateSwapChain
InitD3D_SwapChain ==
    /\ pc = "InitD3D_swapChain"
    /\ UNCHANGED << source, calc, camera >>
    /\ UNCHANGED << recorded, heaps, fenceAtEntry >>
    /\ \E ok \in ApiOutcomes :
          /\ Charge(ok)
          /\ g_DxApp' = CreateSwapChain(g_DxApp, ok)
          /\ nextId' = IF ok THEN nextId + 3 ELSE nextId
          /\ Goto(IF ok THEN "CreateDescriptorHeaps" ELSE InitFailed)
    /\ UNCHANGED << gpu, window, enabled, build, flushedInOp,
                    lastSignalArg, idxHist, ops >>

\* CreateDescriptorHeaps: RTV heap, then DSV heap; on success InitD3D returns
\* true and WM_CREATE goes on with OnResize and OnInitialize, after which
\* InitWindowsApp returns and Run starts
CreateDescriptorHeaps ==
    /\ pc = "CreateDescriptorHeaps"
    /\ UNCHANGED << source, calc, camera >>
    /\ UNCHANGED << recorded, heaps, fenceAtEntry >>
    /\ \E k \in 0 .. 2 :
          /\ k < 2 => failures < MaxFailures
          /\ failures' = IF k < 2 THEN failures + 1 ELSE failures
          /\ g_DxApp' = [ g_DxApp EXCEPT !.m_RtvHeap = (k >= 1),
                                         !.m_DsvHeap = (k >= 2) ]
          /\ IF k = 2
             THEN /\ pc' = "OnResize"
                  /\ stack' = << "OnInitialize", "Run" >>
             ELSE Goto(InitFailed)
    /\ UNCHANGED << gpu, window, enabled, nextId, build, flushedInOp,
                    lastSignalArg, idxHist, ops >>

\* WM_CREATE when InitD3D returned false: DestroyWindow, whose WM_DESTROY
\* posts the quit message; g_MainWnd is set, so InitWindowsApp goes on to Run
WM_CREATE_InitFailed ==
    /\ pc = "WM_CREATE_failed"
    /\ UNCHANGED << source, calc, camera >>
    /\ UNCHANGED << recorded, heaps, fenceAtEntry >>
    /\ window' = PostQuitMessage(window, 0)
    /\ Goto("Run")
    /\ UNCHANGED << g_DxApp, gpu, enabled, nextId, build, failures,
                    flushedInOp, lastSignalArg, idxHist, ops >>

\* --------------------------------------------------- FlushCommandQueue
FlushRet == { "Flush_ret_signalFailed", "Flush_ret_noWait",
              "Flush_ret_eventFailed", "Flush_ret_waited" }

\* m_CurrentFence++ and m_CommandQueue->Signal(m_Fence, m_CurrentFence)
Flush_Signal ==
    /\ pc = "FlushCommandQueue"
    /\ UNCHANGED << source, calc, camera >>
    /\ UNCHANGED << recorded, heaps, fenceAtEntry >>
    /\ \E ok \in ApiOutcomes :
          LET app == [ g_DxApp EXCEPT !.m_CurrentFence = NextFence(@) ]
          IN  /\ Charge(ok)
              /\ g_DxApp' = app
              /\ lastSignalArg' = SignalTarget(app)
              /\ gpu' = IF ok
                        THEN [ gpu EXCEPT
                                 !.queue = Append(@, SignalCmd(SignalTarget(app))),
                                 !.signaled = SignalTarget(app) ]
                        ELSE gpu
              /\ Goto(IF ok THEN "Flush_check" ELSE "Flush_ret_signalFailed")
    /\ UNCHANGED << window, enabled, nextId, build, flushedInOp, idxHist, ops >>

\* if (m_Fence->GetCompletedValue() < m_CurrentFence)
Flush_Check ==
    /\ pc = "Flush_check"
    /\ UNCHANGED << source, calc, camera >>
    /\ UNCHANGED << recorded, heaps, fenceAtEntry >>
    /\ Goto(IF gpu.completed < g_DxApp.m_CurrentFence
            THEN "Flush_setEvent" ELSE "Flush_ret_noWait")
    /\ UNCHANGED << g_DxApp, gpu, window, enabled, nextId, build, failures,
                    flushedInOp, lastSignalArg, idxHist, ops >>

\* a registration that only arms the event, even when the fence has already
\* reached the value
Flush_SetEvent_Armed ==
    /\ pc = "Flush_setEvent"
    /\ UNCHANGED << source, calc, camera >>
    /\ UNCHANGED << recorded, heaps, fenceAtEntry >>
    /\ \E ok \in ApiOutcomes :
          /\ Charge(ok)
          /\ gpu' = IF ok
                    THEN [ gpu EXCEPT !.target = SignalTarget(g_DxApp),
                                      !.event = "armed" ]
                    ELSE gpu
          /\ Goto(IF ok THEN "Flush_wait" ELSE "Flush_ret_eventFailed")
    /\ UNCHANGED << g_DxApp, window, enabled, nextId, build, flushedInOp,
                    lastSignalArg, idxHist, ops >>

\* CreateEventEx and m_Fence->SetEventOnCompletion(m_CurrentFence, eventHandle):
\* the event is set at once when the fence already reached the value
Flush_SetEvent ==
    /\ pc = "Flush_setEvent"
    /\ UNCHANGED << source, calc, camera >>
    /\ UNCHANGED << recorded, heaps, fenceAtEntry >>
    /\ \E ok \in ApiOutcomes :
          /\ Charge(ok)
          /\ gpu' = IF ok
                    THEN [ gpu EXCEPT
                             !.target = SignalTarget(g_DxApp),
                             !.event = IF gpu.completed >= SignalTarget(g_DxApp)
                                       THEN "signaled" ELSE "armed" ]
                    ELSE gpu
          /\ Goto(IF ok THEN "Flush_wait" ELSE "Flush_ret_eventFailed")
    /\ UNCHANGED << g_DxApp, window, enabled, nextId, build, flushedInOp,
                    lastSignalArg, idxHist, ops >>

\* WaitForSingleObject(eventHandle, INFINITE) returns; CloseHandle
Flush_Wait ==
    /\ pc = "Flush_wait"
    /\ UNCHANGED << source, calc, camera >>
    /\ UNCHANGED << recorded, heaps, fenceAtEntry >>
    /\ gpu.event = "signaled"
    /\ gpu' = [ gpu EXCEPT !.event = "none", !.target = 0 ]
    /\ Goto("Flush_ret_waited")
    /\ UNCHANGED << g_DxApp, window, enabled, nextId, build, failures,
                    flushedInOp, lastSignalArg, idxHist, ops >>

\* FlushCommandQueue returns to its caller
Flush_Return ==
    /\ pc \in FlushRet
    /\ UNCHANGED << source, calc, camera >>
    /\ UNCHANGED << recorded, heaps, fenceAtEntry >>
    /\ pc' = Head(stack)
    /\ stack' = Tail(stack)
    /\ flushedInOp' = TRUE
    /\ UNCHANGED << g_DxApp, gpu, window, enabled, nextId, build, failures,
                    lastSignalArg, idxHist, ops >>

\* ----------------------------------------------------------------- GPU
\* what the GPU reads from an upload resource: its bytes, or anything at all
\* once the resource has been released
UploadRead(up, byteSize) ==
    IF up.exists THEN { up.bytes }
    ELSE { Buffer(byteSize), [ i \in 1 .. byteSize |-> -1 ] }

\* GPU memory after the copy commands of a command list have run, each
\* reading its upload resource
Copied(vram, copies, geo) ==
    { [ vb |-> IF "vb" \in copies
               THEN CopyBufferRegion(vram.vb, v, Len(vram.vb)) ELSE vram.vb,
        ib |-> IF "ib" \in copies
               THEN CopyBufferRegion(vram.ib, i, Len(vram.ib)) ELSE vram.ib ] :
      v \in UploadRead(geo.m_VertexBufferUploader, Len(vram.vb)),
      i \in UploadRead(geo.m_IndexBufferUploader, Len(vram.ib)) }

\* the textures that exist: the buffers of the swap chain, those the
\* application holds a handle to, and the depth buffer
Textures(app) ==
    ( { app.m_SwapChain.bufs[i] : i \in 0 .. s_SwapChainBufferCount - 1 }
      \cup { app.m_SwapChainBuffer[i] : i \in 0 .. s_SwapChainBufferCount - 1 }
      \cup { app.m_DepthStencilBuffer.id } ) \ { 0 }

\* whether the resource a command names exists
Alive(app, res) ==
    IF res.kind = "texture" THEN res.id \in Textures(app)
    ELSE IF res.kind = "vb" THEN app.m_BoxGeo.m_VertexBufferGPU
    ELSE app.m_BoxGeo.m_IndexBufferGPU

\* the state of a resource on the GPU: every resource of the program is
\* created in the common state, which is also the present state
StateOf(states, app, res) ==
    IF ~Alive(app, res) THEN "none"
    ELSE IF res \in DOMAIN states THEN states[res]
    ELSE "COMMON"

\* the state a command needs its resource in
Required(c) ==
    IF c.op = "ResourceBarrier" THEN c.before
    ELSE IF c.op = "ClearDepthStencilView" THEN "DEPTH_WRITE"
    ELSE IF c.op = "CopyBufferRegion" THEN "COPY_DEST"
    ELSE "RENDER_TARGET"

\* the resource states after the commands of a list have run in order, and
\* the commands among them that found their resource in another state
RECURSIVE Executed(_, _, _)
Executed(g, list, app) ==
    IF list = << >> THEN g
    ELSE LET c == Head(list)
             cur == StateOf(g.states, app, c.res)
             new == IF c.op = "ResourceBarrier" /\ cur # "none"
                    THEN [ r \in DOMAIN g.states \cup { c.res } |->
                             IF r = c.res THEN c.after ELSE g.states[r] ]
                    ELSE g.states
             after == [ states |-> new,
                        hazard |-> IF cur = Required(c) THEN g.hazard
                                   ELSE g.hazard \cup { c.op } ]
         IN  CHOOSE r \in { Executed(n, Tail(list), app) : n \in { after } } : TRUE

\* the resource states kept: those of the resources that exist and are not
\* in the state they were created in
Kept(states, app) ==
    [ r \in { x \in DOMAIN states : Alive(app, x) /\ states[x] # "COMMON" } |->
        states[r] ]

\* the GPU takes the next item of the queue: a command list runs to its end,
\* a Signal sets the fence and fires an armed event
GPU_Execute ==
    /\ pc \notin Terminal
    /\ UNCHANGED << source, calc, camera >>
    /\ UNCHANGED << recorded, heaps, fenceAtEntry >>
    /\ gpu.queue # << >>
    /\ LET item == Head(gpu.queue)
       IN  IF item.kind = "signal"
           THEN gpu' = [ gpu EXCEPT
                           !.queue = Tail(@),
                           !.completed = item.v,
                           !.event = IF @ = "armed" /\ item.v >= gpu.target
                                     THEN "signaled" ELSE @ ]
           ELSE \E vram \in Copied(gpu.vram, item.copies, g_DxApp.m_BoxGeo) :
                  LET g == Executed([ states |-> gpu.states, hazard |-> gpu.hazard ],
                                    item.list, g_DxApp)
                  IN  gpu' = [ gpu EXCEPT !.queue = Tail(@), !.vram = vram,
                                          !.states = Kept(g.states, g_DxApp),
                                          !.hazard = g.hazard ]
    /\ UNCHANGED << pc, stack, g_DxApp, window, enabled, nextId, build,
                    failures, flushedInOp, lastSignalArg, idxHist, ops >>

\* ------------------------------------------------------- command list
\* ID3D12GraphicsCommandList::Reset succeeds only on a closed list
ListResetOutcomes(app) == IF app.m_CommandList = "closed" THEN ApiOutcomes ELSE { FALSE }
ChargeListReset(app, ok) ==
    failures' = IF ~ok /\ app.m_CommandList = "closed" THEN failures + 1 ELSE failures
\* state of the list after Close: a failed Close may or may not have closed it
ListAfterClose(ok) == IF ok THEN { "closed" } ELSE { "open", "closed" }

\* ------------------------------------------------------------ OnResize
OnResizeRet == { "OnResize_ret_ok", "OnResize_ret_failed" }

\* what the three assertions at the head of OnResize test
OnResizeAsserts(app) ==
    /\ app.m_D3dDevice
    /\ app.m_SwapChain.id # 0
    /\ app.m_DirectCommandListAllocator

\* the assertions, then the first FlushCommandQueue
OnResize_Enter ==
    /\ pc = "OnResize"
    /\ UNCHANGED << source, calc, camera >>
    /\ UNCHANGED << recorded, heaps >>
    /\ fenceAtEntry' = << g_DxApp.m_CurrentFence >>
    /\ \E b \in { "debug", "release" } :
          /\ build' = AfterAssert(OnResizeAsserts(g_DxApp), b)
          /\ IF build' = "debug"
             THEN Goto("abort")
             ELSE Call("FlushCommandQueue", "OnResize_reset")
    /\ flushedInOp' = FALSE
    /\ idxHist' = << g_DxApp.m_CurrentBackBuffer >>
    /\ UNCHANGED << g_DxApp, gpu, window, enabled, nextId, failures, lastSignalArg, ops >>

\* an OnResize that resets the list and keeps the handles
OnResize_Reset_Keep ==
    /\ pc = "OnResize_reset"
    /\ UNCHANGED << source, calc, camera >>
    /\ UNCHANGED << recorded, heaps, fenceAtEntry >>
    /\ \E ok \in ListResetOutcomes(g_DxApp) :
          /\ ChargeListReset(g_DxApp, ok)
          /\ g_DxApp' = IF ok THEN [ g_DxApp EXCEPT !.m_CommandList = "open" ]
                        ELSE g_DxApp
          /\ Goto(IF ok THEN "OnResize_resizeBuffers" ELSE "OnResize_ret_failed")
    /\ UNCHANGED << gpu, window, enabled, nextId, build, flushedInOp,
                    lastSignalArg, idxHist, ops >>

\* m_CommandList->Reset, then the swap-chain buffer handles and the depth
\* buffer handle are released
OnResize_Reset ==
    /\ pc = "OnResize_reset"
    /\ UNCHANGED << source, calc, camera >>
    /\ UNCHANGED << heaps, fenceAtEntry >>
    /\ \E ok \in ListResetOutcomes(g_DxApp) :
          /\ recorded' = IF ok THEN << >> ELSE recorded
          /\ ChargeListReset(g_DxApp, ok)
          /\ g_DxApp' = IF ok
                        THEN [ g_DxApp EXCEPT !.m_CommandList = "open",
                                              !.m_SwapChainBuffer = NullHandles,
                                              !.m_DepthStencilBuffer = NullResource ]
                        ELSE g_DxApp
          /\ Goto(IF ok THEN "OnResize_resizeBuffers" ELSE "OnResize_ret_failed")
    /\ UNCHANGED << gpu, window, enabled, nextId, build, flushedInOp,
                    lastSignalArg, idxHist, ops >>

\* m_SwapChain->ResizeBuffers(count, width, height, ...) and
\* m_CurrentBackBuffer = 0; a null m_SwapChain is dereferenced here
OnResize_ResizeBuffers ==
    /\ pc = "OnResize_resizeBuffers"
    /\ UNCHANGED << source, calc, camera >>
    /\ UNCHANGED << recorded, heaps, fenceAtEntry >>
    /\ IF g_DxApp.m_SwapChain.id = 0
       THEN /\ Goto("crash")
            /\ UNCHANGED << g_DxApp, nextId, failures, idxHist, ops >>
       ELSE \E ok \in ApiOutcomes :
              /\ Charge(ok)
              /\ g_DxApp' = IF ok
                            THEN [ g_DxApp EXCEPT
                                     !.m_SwapChain.count = s_SwapChainBufferCount,
                                     !.m_SwapChain.w = g_DxApp.m_ClientWidth,
                                     !.m_SwapChain.h = g_DxApp.m_ClientHeight,
                                     !.m_SwapChain.cur = 0,
                                     !.m_SwapChain.bufs =
                                        [ i \in 0 .. s_SwapChainBufferCount - 1 |-> nextId + i ],
                                     !.m_CurrentBackBuffer = 0 ]
                            ELSE g_DxApp
              /\ nextId' = IF ok THEN nextId + s_SwapChainBufferCount ELSE nextId
              /\ idxHist' = IF ok THEN << 0 >> ELSE idxHist
              /\ Goto(IF ok THEN "OnResize_getBuffers" ELSE "OnResize_ret_failed")
    /\ UNCHANGED << gpu, window, enabled, build, flushedInOp, lastSignalArg, ops >>

\* the loop of m_SwapChain->GetBuffer(i) and CreateRenderTargetView: k is the
\* number of buffers fetched before a GetBuffer failed
OnResize_GetBuffers ==
    /\ pc = "OnResize_getBuffers"
    /\ UNCHANGED << source, calc, camera >>
    /\ UNCHANGED << recorded, fenceAtEntry >>
    /\ \E k \in 0 .. s_SwapChainBufferCount :
          /\ k < s_SwapChainBufferCount => failures < MaxFailures
          /\ failures' = IF k < s_SwapChainBufferCount THEN failures + 1 ELSE failures
          /\ g_DxApp' = [ g_DxApp EXCEPT !.m_SwapChainBuffer =
                            [ i \in 0 .. s_SwapChainBufferCount - 1 |->
                                IF i < k THEN g_DxApp.m_SwapChain.bufs[i] ELSE 0 ] ]
          /\ heaps' = RenderTargetViews(heaps, g_DxApp, k)
          /\ Goto(IF k = s_SwapChainBufferCount THEN "OnResize_depth"
                  ELSE "OnResize_ret_failed")
    /\ UNCHANGED << gpu, window, enabled, nextId, build, flushedInOp,
                    lastSignalArg, idxHist, ops >>

\* CreateCommittedResource for the depth buffer, its view and the recorded
\* transition COMMON -> DEPTH_WRITE
OnResize_Depth ==
    /\ pc = "OnResize_depth"
    /\ UNCHANGED << source, calc, camera >>
    /\ UNCHANGED fenceAtEntry
    /\ \E ok \in ApiOutcomes :
          /\ Charge(ok)
          /\ g_DxApp' = IF ok
                        THEN [ g_DxApp EXCEPT !.m_DepthStencilBuffer =
                                 [ id |-> nextId, w |-> g_DxApp.m_ClientWidth,
                                   h |-> g_DxApp.m_ClientHeight,
                                   sample |-> SampleDesc(g_DxApp) ] ]
                        ELSE g_DxApp
          /\ nextId' = IF ok THEN nextId + 1 ELSE nextId
          /\ heaps' = IF ok THEN [ heaps EXCEPT !.dsv = nextId ] ELSE heaps
          /\ recorded' = IF ok
                         THEN Append(recorded,
                                Transition(Texture(nextId), "COMMON", "DEPTH_WRITE"))
                         ELSE recorded
          /\ Goto(IF ok THEN "OnResize_close" ELSE "OnResize_ret_failed")
    /\ UNCHANGED << gpu, window, enabled, build, flushedInOp,
                    lastSignalArg, idxHist, ops >>

\* m_CommandList->Close, ExecuteCommandLists and the second FlushCommandQueue
OnResize_Close ==
    /\ pc = "OnResize_close"
    /\ UNCHANGED << source, calc, camera >>
    /\ UNCHANGED << heaps, fenceAtEntry >>
    /\ \E ok \in ApiOutcomes, st \in { "open", "closed" } :
          /\ st \in ListAfterClose(ok)
          /\ Charge(ok)
          /\ g_DxApp' = [ g_DxApp EXCEPT !.m_CommandList = st ]
          /\ gpu' = IF ok
                    THEN [ gpu EXCEPT !.queue = Append(@, Cmds("resize", { }, recorded)) ]
                    ELSE gpu
          /\ recorded' = IF ok THEN << >> ELSE recorded
          /\ IF ok THEN Call("FlushCommandQueue", "OnResize_viewport")
             ELSE Goto("OnResize_ret_failed")
    /\ UNCHANGED << window, enabled, nextId, build, flushedInOp,
                    lastSignalArg, idxHist, ops >>

\* viewport, scissor rectangle and projection matrix from the client size
OnResize_Viewport ==
    /\ pc = "OnResize_viewport"
    /\ UNCHANGED << source, calc, camera >>
    /\ UNCHANGED << recorded, heaps, fenceAtEntry >>
    /\ g_DxApp' = [ g_DxApp EXCEPT
                      !.m_ScreenViewport = Viewport(g_DxApp),
                      !.m_ScissorRect = ScissorRect(g_DxApp),
                      !.m_Proj = [ kind |-> "perspective",
                                   aspect |-> AspectRatio(g_DxApp) ] ]
    /\ Goto("OnResize_ret_ok")
    /\ UNCHANGED << gpu, window, enabled, nextId, build, failures,
                    flushedInOp, lastSignalArg, idxHist, ops >>

OnResize_Return ==
    /\ pc \in OnResizeRet
    /\ UNCHANGED << source, calc, camera >>
    /\ UNCHANGED << recorded, heaps >>
    /\ fenceAtEntry' = << >>
    /\ Return
    /\ UNCHANGED << g_DxApp, gpu, window, enabled, nextId, build, failures,
                    lastSignalArg, idxHist, ops >>

\* ------------------------------------------------------ SetMsaaEnabled
SetMsaaRet == { "SetMsaaEnabled_ret_changed", "SetMsaaEnabled_ret_unchanged" }

\* SetMsaaEnabled(e) called from the message loop: if the flag differs,
\* store it, CreateSwapChain (result ignored), OnResize
SetMsaaEnabled(e) ==
    /\ pc = "Run"
    /\ UNCHANGED << source, calc, camera >>
    /\ UNCHANGED << recorded, heaps, fenceAtEntry >>
    /\ window.alive
    /\ ~window.quitPosted
    /\ MsaaChanged(g_DxApp, e) => ops < MaxOps
    /\ ops' = IF MsaaChanged(g_DxApp, e) THEN ops + 1 ELSE ops
    /\ IF MsaaChanged(g_DxApp, e)
       THEN \E ok \in ApiOutcomes :
              /\ Charge(ok)
              /\ g_DxApp' = CreateSwapChain([ g_DxApp EXCEPT !.m_MsaaEnabled = e ], ok)
              /\ nextId' = IF ok THEN nextId + 3 ELSE nextId
              /\ pc' = "OnResize"
              /\ stack' = << "SetMsaaEnabled_ret_changed", "Run" >>
       ELSE /\ pc' = "SetMsaaEnabled_ret_unchanged"
            /\ stack' = << "Run" >>
            /\ UNCHANGED << g_DxApp, nextId, failures >>
    /\ enabled' = << e >>
    /\ UNCHANGED << gpu, window, build, flushedInOp, lastSignalArg, idxHist >>

SetMsaaEnabled_Return ==
    /\ pc \in SetMsaaRet
    /\ UNCHANGED << source, calc, camera >>
    /\ UNCHANGED << recorded, heaps, fenceAtEntry >>
    /\ Return
    /\ enabled' = << >>
    /\ UNCHANGED << g_DxApp, gpu, window, nextId, build, failures,
                    lastSignalArg, idxHist, ops >>

\* -------------------------------------------------------- OnInitialize
OnInitializeRet == { "OnInitialize_ret_ok", "OnInitialize_ret_failed" }

\* m_CommandList->Reset(allocator, nullptr)
OnInitialize_Reset ==
    /\ pc = "OnInitialize"
    /\ UNCHANGED << source, calc, camera >>
    /\ UNCHANGED << heaps, fenceAtEntry >>
    /\ \E ok \in ListResetOutcomes(g_DxApp) :
          /\ recorded' = IF ok THEN << >> ELSE recorded
          /\ ChargeListReset(g_DxApp, ok)
          /\ g_DxApp' = IF ok THEN [ g_DxApp EXCEPT !.m_CommandList = "open" ]
                        ELSE g_DxApp
          /\ Goto(IF ok THEN "OnInitialize_build" ELSE "OnInitialize_ret_failed")
    /\ UNCHANGED << gpu, window, enabled, nextId, build, flushedInOp,
                    lastSignalArg, idxHist, ops >>

\* BuildDescriptorHeaps: the constant buffer view heap; a failure returns
\* with m_CbvHeap null
BuildDescriptorHeaps ==
    /\ pc = "OnInitialize_build"
    /\ UNCHANGED << source, calc, camera >>
    /\ UNCHANGED << recorded, heaps, fenceAtEntry >>
    /\ \E ok \in ApiOutcomes :
          /\ Charge(ok)
          /\ g_DxApp' = [ g_DxApp EXCEPT !.m_CbvHeap = ok ]
    /\ Goto("BuildConstantBuffers")
    /\ UNCHANGED << gpu, window, enabled, nextId, build, flushedInOp,
                    lastSignalArg, idxHist, ops >>

\* BuildConstantBuffers: m_ObjectCB->Resource() and m_CbvHeap are dereferenced
\* unchecked
BuildConstantBuffers ==
    /\ pc = "BuildConstantBuffers"
    /\ UNCHANGED << source, camera >>
    /\ UNCHANGED << recorded, heaps, fenceAtEntry >>
    /\ calc' = Called(U32(SizeofObjectConstants))
    /\ \E created \in ApiOutcomes, mapped \in ApiOutcomes :
          /\ created \/ mapped
          /\ Charge(created /\ mapped)
          /\ g_DxApp' = [ g_DxApp EXCEPT
                            !.m_ObjectCB = UploadBuffer(calc'.result, created, mapped) ]
          /\ IF created /\ g_DxApp.m_CbvHeap
             THEN Goto("BuildRootSignature")
             ELSE Goto("crash")
    /\ UNCHANGED << gpu, window, enabled, nextId, build, flushedInOp,
                    lastSignalArg, idxHist, ops >>

\* BuildRootSignature: a failed serialization returns only when it left an
\* error blob; without one the null serialized blob is dereferenced. The root
\* signature itself is not part of the state: nothing dereferences it
BuildRootSignature ==
    /\ pc = "BuildRootSignature"
    /\ UNCHANGED << source, calc, camera >>
    /\ UNCHANGED << recorded, heaps, fenceAtEntry >>
    /\ \E serialized \in ApiOutcomes, errorBlob \in BOOLEAN, created \in ApiOutcomes :
          /\ serialized => ~errorBlob
          /\ ~serialized => created
          /\ Charge(serialized /\ created)
          /\ IF serialized \/ errorBlob
             THEN Goto("BuildShadersAndInputLayout")
             ELSE Goto("crash")
    /\ UNCHANGED << g_DxApp, gpu, window, enabled, nextId, build, flushedInOp,
                    lastSignalArg, idxHist, ops >>

\* BuildShadersAndInputLayout: CompileShader returns nullptr on failure
BuildShadersAndInputLayout ==
    /\ pc = "BuildShadersAndInputLayout"
    /\ UNCHANGED << source, calc, camera >>
    /\ UNCHANGED << recorded, heaps, fenceAtEntry >>
    /\ \E vs \in BOOLEAN, ps \in BOOLEAN :
          /\ failures + (IF vs THEN 0 ELSE 1) + (IF ps THEN 0 ELSE 1) <= MaxFailures
          /\ failures' = failures + (IF vs THEN 0 ELSE 1) + (IF ps THEN 0 ELSE 1)
          /\ g_DxApp' = [ g_DxApp EXCEPT !.m_VsByteCode = vs, !.m_PsByteCode = ps ]
    /\ Goto("BuildBoxGeometry")
    /\ UNCHANGED << gpu, window, enabled, nextId, build, flushedInOp,
                    lastSignalArg, idxHist, ops >>

\* BuildBoxGeometry: the two CPU blobs (a failed D3DCreateBlob returns), then
\* the two CreateDefaultBuffer calls, whose results are not checked
BuildBoxGeometry ==
    /\ pc = "BuildBoxGeometry"
    /\ UNCHANGED << source, calc, camera >>
    /\ UNCHANGED << heaps, fenceAtEntry >>
    /\ \E blobs \in BOOLEAN, vo \in CreateDefaultBufferOutcomes,
          io \in CreateDefaultBufferOutcomes :
          LET n  == (IF blobs THEN 0 ELSE 1) + (IF vo # "ok" THEN 1 ELSE 0)
                    + (IF io # "ok" THEN 1 ELSE 0)
              vb == CreateDefaultBuffer(source.vertices, ByteSize(source.vertices), vo)
              ib == CreateDefaultBuffer(source.indices, ByteSize(source.indices), io)
          IN  /\ ~blobs => vo = "ok" /\ io = "ok"
              /\ failures + n <= MaxFailures
              /\ failures' = failures + n
              /\ IF ~blobs
                 THEN /\ g_DxApp' = [ g_DxApp EXCEPT !.m_BoxGeo =
                            [ NullMeshGeometry EXCEPT !.ptr = TRUE ] ]
                      /\ gpu' = gpu
                      /\ recorded' = recorded
                 ELSE /\ g_DxApp' = [ g_DxApp EXCEPT !.m_BoxGeo =
                            [ ptr |-> TRUE,
                              m_VertexBufferGPU |-> vb.defaultBuffer,
                              m_IndexBufferGPU |-> ib.defaultBuffer,
                              m_VertexBufferUploader |-> vb.uploadBuffer,
                              m_IndexBufferUploader |-> ib.uploadBuffer ] ]
                      /\ gpu' = [ gpu EXCEPT
                            !.vram.vb = IF vb.defaultBuffer
                                        THEN Buffer(ByteSize(source.vertices)) ELSE @,
                            !.vram.ib = IF ib.defaultBuffer
                                        THEN Buffer(ByteSize(source.indices)) ELSE @ ]
                      /\ recorded' = recorded \o Named(vb.commands, "vb")
                                               \o Named(ib.commands, "ib")
    /\ Goto("BuildPSO")
    /\ UNCHANGED << window, enabled, nextId, build, flushedInOp,
                    lastSignalArg, idxHist, ops >>

\* BuildPSO: the shader blobs are dereferenced unchecked; a failed
\* CreateGraphicsPipelineState returns with m_PSO null
BuildPSO ==
    /\ pc = "BuildPSO"
    /\ UNCHANGED << source, calc, camera >>
    /\ UNCHANGED << recorded, heaps, fenceAtEntry >>
    /\ IF g_DxApp.m_VsByteCode /\ g_DxApp.m_PsByteCode
       THEN \E ok \in ApiOutcomes :
              /\ Charge(ok)
              /\ g_DxApp' = IF ok
                            THEN [ g_DxApp EXCEPT
                                     !.m_PSO = [ id |-> nextId, w |-> 0, h |-> 0,
                                                 sample |-> SampleDesc(g_DxApp) ] ]
                            ELSE g_DxApp
              /\ nextId' = IF ok THEN nextId + 1 ELSE nextId
              /\ Goto("OnInitialize_close")
       ELSE /\ Goto("crash")
            /\ UNCHANGED << g_DxApp, nextId, failures >>
    /\ UNCHANGED << gpu, window, enabled, build, flushedInOp,
                    lastSignalArg, idxHist, ops >>

\* the end of OnInitialize: Close, ExecuteCommandLists, FlushCommandQueue
OnInitialize_Close ==
    /\ pc = "OnInitialize_close"
    /\ UNCHANGED << source, calc, camera >>
    /\ UNCHANGED << heaps, fenceAtEntry >>
    /\ \E ok \in ApiOutcomes, st \in { "open", "closed" } :
          /\ st \in ListAfterClose(ok)
          /\ Charge(ok)
          /\ g_DxApp' = [ g_DxApp EXCEPT !.m_CommandList = st ]
          /\ gpu' = IF ok
                    THEN [ gpu EXCEPT !.queue =
                             Append(@, Cmds("init", RecordedCopies(g_DxApp.m_BoxGeo),
                                            recorded)) ]
                    ELSE gpu
          /\ recorded' = IF ok THEN << >> ELSE recorded
          /\ IF ok THEN Call("FlushCommandQueue", "OnInitialize_ret_ok")
             ELSE Goto("OnInitialize_ret_failed")
    /\ UNCHANGED << window, enabled, nextId, build, flushedInOp, lastSignalArg,
                    idxHist, ops >>

OnInitialize_Return ==
    /\ pc \in OnInitializeRet
    /\ UNCHANGED << source, calc, camera >>
    /\ UNCHANGED << recorded, heaps, fenceAtEntry >>
    /\ Return
    /\ UNCHANGED << g_DxApp, gpu, window, enabled, nextId, build, failures,
                    lastSignalArg, idxHist, ops >>

\* ------------------------------------------------------- Update / Draw
DrawRet == { "Draw_ret_ok", "Draw_ret_allocatorResetFailed", "Draw_ret_listResetFailed",
             "Draw_ret_closeFailed", "Draw_ret_presentFailed" }

\* a Draw that goes on to its next call whatever the last one returned
DrawNext_Continue(step, ok) ==
    IF step = "allocatorReset" THEN "Draw_listReset"
    ELSE IF step = "listReset" THEN "Draw_record"
    ELSE IF step = "close" THEN "Draw_execute"
    ELSE "FlushCommandQueue"

\* where Draw goes after a call that returns an HRESULT: on to its next
\* step, or out through the return that follows the failed call
DrawNext(step, ok) ==
    IF step = "allocatorReset"
    THEN IF ok THEN "Draw_listReset" ELSE "Draw_ret_allocatorResetFailed"
    ELSE IF step = "listReset"
    THEN IF ok THEN "Draw_record" ELSE "Draw_ret_listResetFailed"
    ELSE IF step = "close"
    THEN IF ok THEN "Draw_execute" ELSE "Draw_ret_closeFailed"
    ELSE IF ok THEN "FlushCommandQueue" ELSE "Draw_ret_presentFailed"

\* Update writes the constant buffer through m_ObjectCB (null when
\* OnInitialize returned early); Run then calls Draw
Update ==
    /\ pc = "Update"
    /\ UNCHANGED << source, calc, camera >>
    /\ UNCHANGED << recorded, heaps, fenceAtEntry >>
    /\ IF g_DxApp.m_ObjectCB.ptr /\ g_DxApp.m_ObjectCB.m_MappedData
       THEN Call("Draw", "Run")
       ELSE Goto("crash")
    /\ UNCHANGED << g_DxApp, gpu, window, enabled, nextId, build, failures,
                    flushedInOp, lastSignalArg, idxHist, ops >>

\* m_DirectCommandListAllocator->Reset(): with command lists of the allocator
\* still executing the call is invalid and may fail or go through
Draw_AllocatorReset ==
    /\ pc = "Draw"
    /\ UNCHANGED << source, calc, camera >>
    /\ UNCHANGED << recorded, heaps, fenceAtEntry >>
    /\ \E ok \in BOOLEAN :
          /\ GpuBusy \/ ok \in ApiOutcomes
          /\ failures' = IF ~ok /\ ~GpuBusy THEN failures + 1 ELSE failures
          /\ Goto(DrawNext("allocatorReset", ok))
    /\ UNCHANGED << g_DxApp, gpu, window, enabled, nextId, build,
                    flushedInOp, lastSignalArg, idxHist, ops >>

\* m_CommandList->Reset(allocator, m_PSO)
Draw_ListReset ==
    /\ pc = "Draw_listReset"
    /\ UNCHANGED << source, calc, camera >>
    /\ UNCHANGED << heaps, fenceAtEntry >>
    /\ \E ok \in ListResetOutcomes(g_DxApp) :
          /\ recorded' = IF ok THEN << >> ELSE recorded
          /\ ChargeListReset(g_DxApp, ok)
          /\ g_DxApp' = IF ok THEN [ g_DxApp EXCEPT !.m_CommandList = "open" ]
                        ELSE g_DxApp
          /\ Goto(DrawNext("listReset", ok))
    /\ UNCHANGED << gpu, window, enabled, nextId, build, flushedInOp,
                    lastSignalArg, idxHist, ops >>

\* what the recording dereferences unchecked: m_BoxGeo, its two GPU buffers
\* (VertexBufferView, IndexBufferView) and m_CbvHeap
DrawRecordable(app) ==
    /\ app.m_BoxGeo.ptr
    /\ app.m_BoxGeo.m_VertexBufferGPU
    /\ app.m_BoxGeo.m_IndexBufferGPU
    /\ app.m_CbvHeap

\* the recorded frame (viewport, barriers, clears, draw call) and
\* m_CommandList->Close
Draw_Record ==
    /\ pc = "Draw_record"
    /\ UNCHANGED << source, calc, camera >>
    /\ UNCHANGED << heaps, fenceAtEntry >>
    /\ IF ~DrawRecordable(g_DxApp)
       THEN /\ Goto("crash")
            /\ UNCHANGED << g_DxApp, failures, ops, recorded >>
       ELSE \E ok \in ApiOutcomes, st \in { "open", "closed" } :
              /\ st \in ListAfterClose(ok)
              /\ Charge(ok)
              /\ g_DxApp' = [ g_DxApp EXCEPT !.m_CommandList = st ]
              /\ recorded' = recorded \o DrawCommands(g_DxApp, heaps)
              /\ Goto(DrawNext("close", ok))
    /\ UNCHANGED << gpu, window, enabled, nextId, build, flushedInOp,
                    lastSignalArg, idxHist, ops >>

\* m_CommandQueue->ExecuteCommandLists
Draw_Execute ==
    /\ pc = "Draw_execute"
    /\ UNCHANGED << source, calc, camera >>
    /\ UNCHANGED << heaps, fenceAtEntry >>
    /\ gpu' = [ gpu EXCEPT !.queue = Append(@, Cmds("draw", { }, recorded)) ]
    /\ recorded' = << >>
    /\ Goto("Draw_present")
    /\ UNCHANGED << g_DxApp, window, enabled, nextId, build, failures,
                    flushedInOp, lastSignalArg, idxHist, ops >>

\* m_SwapChain->Present, the advance of m_CurrentBackBuffer and the
\* FlushCommandQueue that ends the frame
Draw_Present ==
    /\ pc = "Draw_present"
    /\ UNCHANGED << source, calc, camera >>
    /\ UNCHANGED << recorded, heaps, fenceAtEntry >>
    /\ IF g_DxApp.m_SwapChain.id = 0
       THEN /\ Goto("crash")
            /\ UNCHANGED << g_DxApp, failures, idxHist, ops >>
       ELSE \E ok \in ApiOutcomes :
              /\ Charge(ok)
              /\ g_DxApp' = IF ok
                            THEN [ g_DxApp EXCEPT
                                     !.m_SwapChain.cur = (@ + 1) % g_DxApp.m_SwapChain.count,
                                     !.m_CurrentBackBuffer = NextBackBuffer(@) ]
                            ELSE g_DxApp
              /\ idxHist' = IF ok
                            THEN LET h == Append(idxHist, NextBackBuffer(g_DxApp.m_CurrentBackBuffer))
                                 IN  IF Len(h) > s_SwapChainBufferCount + 1 THEN Tail(h) ELSE h
                            ELSE idxHist
              /\ IF DrawNext("present", ok) = "FlushCommandQueue"
                 THEN Call("FlushCommandQueue", "Draw_ret_ok")
                 ELSE Goto(DrawNext("present", ok))
    /\ UNCHANGED << gpu, window, enabled, nextId, build, flushedInOp,
                    lastSignalArg, ops >>

Draw_Return ==
    /\ pc \in DrawRet
    /\ UNCHANGED << source, calc, camera >>
    /\ UNCHANGED << recorded, heaps, fenceAtEntry >>
    /\ Return
    /\ UNCHANGED << g_DxApp, gpu, window, enabled, nextId, build, failures,
                    lastSignalArg, idxHist, ops >>

\* ------------------------------------------------- Run and the WndProc
\* PeekMessage hands a window message to WndProc
Dispatching ==
    /\ pc = "Run"
    /\ window.alive
    /\ ~window.quitPosted

\* a handler that flushes is started only below the bound
Start(flushes) == /\ flushes => ops < MaxOps
                  /\ ops' = IF flushes THEN ops + 1 ELSE ops

\* GameTimer::Stop / GameTimer::Start: the value of m_IsStopped afterwards
TimerStop(stopped) == TRUE
TimerStart(stopped) == FALSE

\* WM_ACTIVATE
WM_ACTIVATE(inactive) ==
    /\ Dispatching
    /\ UNCHANGED << source, calc, camera >>
    /\ UNCHANGED << recorded, heaps, fenceAtEntry >>
    /\ g_DxApp' = IF inactive
                  THEN [ g_DxApp EXCEPT !.m_IsPaused = TRUE,
                                        !.m_TimerStopped = TimerStop(@) ]
                  ELSE [ g_DxApp EXCEPT !.m_IsPaused = FALSE,
                                        !.m_TimerStopped = TimerStart(@) ]
    /\ UNCHANGED << pc, stack, gpu, window, enabled, nextId, build, failures,
                    flushedInOp, lastSignalArg, idxHist, ops >>

\* the state WM_SIZE leaves before it calls OnResize or returns
SizeState(app, wParam, size) ==
    LET a == [ app EXCEPT !.m_ClientWidth = size[1], !.m_ClientHeight = size[2] ]
    IN  IF ~app.m_D3dDevice THEN a
        ELSE IF wParam = "SIZE_MINIMIZED"
        THEN [ a EXCEPT !.m_IsPaused = TRUE, !.m_IsMinimized = TRUE,
                        !.m_IsMaximized = FALSE ]
        ELSE IF wParam = "SIZE_MAXIMIZED"
        THEN [ a EXCEPT !.m_IsPaused = FALSE, !.m_IsMinimized = FALSE,
                        !.m_IsMaximized = TRUE ]
        ELSE IF app.m_IsMinimized
        THEN [ a EXCEPT !.m_IsPaused = FALSE, !.m_IsMinimized = FALSE ]
        ELSE IF app.m_IsMaximized
        THEN [ a EXCEPT !.m_IsPaused = FALSE, !.m_IsMaximized = FALSE ]
        ELSE a

\* a WM_SIZE that rebuilds the buffers on every restored size, also
\* while the frame is dragged
SizeCallsOnResize_Eager(app, wParam) ==
    /\ app.m_D3dDevice
    /\ wParam \in { "SIZE_MAXIMIZED", "SIZE_RESTORED" }

\* whether WM_SIZE calls OnResize
SizeCallsOnResize(app, wParam) ==
    /\ app.m_D3dDevice
    /\ \/ wParam = "SIZE_MAXIMIZED"
       \/ /\ wParam = "SIZE_RESTORED"
          /\ (app.m_IsMinimized \/ app.m_IsMaximized \/ ~app.m_IsResizing)

SizeParams == { "SIZE_MINIMIZED", "SIZE_MAXIMIZED", "SIZE_RESTORED" }

\* WM_SIZE: a minimized window reports a 0 x 0 client area
WM_SIZE(wParam, size) ==
    /\ Dispatching
    /\ UNCHANGED << source, calc, camera >>
    /\ UNCHANGED << recorded, heaps, fenceAtEntry >>
    /\ Start(SizeCallsOnResize(g_DxApp, wParam))
    /\ (wParam = "SIZE_MINIMIZED") = (size = << 0, 0 >>)
    /\ g_DxApp' = SizeState(g_DxApp, wParam, size)
    /\ IF SizeCallsOnResize(g_DxApp, wParam)
       THEN Call("OnResize", "Run")
       ELSE Goto("Run")
    /\ UNCHANGED << gpu, window, enabled, nextId, build, failures,
                    flushedInOp, lastSignalArg, idxHist >>

\* WM_ENTERSIZEMOVE: the user grabbed the frame
WM_ENTERSIZEMOVE ==
    /\ Dispatching
    /\ UNCHANGED << source, calc, camera >>
    /\ UNCHANGED << recorded, heaps, fenceAtEntry >>
    /\ ~g_DxApp.m_IsResizing
    /\ g_DxApp' = [ g_DxApp EXCEPT !.m_IsPaused = TRUE, !.m_IsResizing = TRUE,
                                   !.m_TimerStopped = TimerStop(@) ]
    /\ UNCHANGED << pc, stack, gpu, window, enabled, nextId, build, failures,
                    flushedInOp, lastSignalArg, idxHist, ops >>

\* WM_EXITSIZEMOVE: the user released the frame
WM_EXITSIZEMOVE ==
    /\ Dispatching
    /\ UNCHANGED << source, calc, camera >>
    /\ UNCHANGED << recorded, heaps, fenceAtEntry >>
    /\ Start(TRUE)
    /\ g_DxApp.m_IsResizing
    /\ g_DxApp' = [ g_DxApp EXCEPT !.m_IsPaused = FALSE, !.m_IsResizing = FALSE,
                                   !.m_TimerStopped = TimerStart(@) ]
    /\ Call("OnResize", "Run")
    /\ UNCHANGED << gpu, window, enabled, nextId, build, failures,
                    flushedInOp, lastSignalArg, idxHist >>

\* WM_KEYUP with VK_F2: SetMsaaEnabled(!m_MsaaEnabled)
WM_KEYUP_F2 == SetMsaaEnabled(~g_DxApp.m_MsaaEnabled)

\* SetMsaaEnabled called with the state it already has
SetMsaaEnabled_Same == SetMsaaEnabled(g_DxApp.m_MsaaEnabled)

\* WM_DESTROY: PostQuitMessage(0); reached by DestroyWindow from WM_KEYUP
\* with VK_ESCAPE and from the default handling of WM_CLOSE
WM_DESTROY ==
    /\ Dispatching
    /\ UNCHANGED << source, calc, camera >>
    /\ UNCHANGED << recorded, heaps, fenceAtEntry >>
    /\ window' = PostQuitMessage(window, 0)
    /\ UNCHANGED << pc, stack, g_DxApp, gpu, enabled, nextId, build, failures,
                    flushedInOp, lastSignalArg, idxHist, ops >>

\* PeekMessage retrieves WM_QUIT: the loop ends and Run returns
Run_Quit ==
    /\ pc = "Run"
    /\ UNCHANGED << source, calc, camera >>
    /\ UNCHANGED << recorded, heaps, fenceAtEntry >>
    /\ window.quitPosted
    /\ window' = [ window EXCEPT !.exitCode = RunReturn(window) ]
    /\ Goto("exited")
    /\ UNCHANGED << g_DxApp, gpu, enabled, nextId, build, failures,
                    flushedInOp, lastSignalArg, idxHist, ops >>

\* a run loop that starts the frame whatever the pause flag says
Run_Frame_Always ==
    /\ pc = "Run"
    /\ UNCHANGED << source, calc, camera >>
    /\ UNCHANGED << recorded, heaps, fenceAtEntry >>
    /\ ~window.quitPosted
    /\ Start(TRUE)
    /\ Goto("Update")
    /\ UNCHANGED << g_DxApp, gpu, window, enabled, nextId, build, failures,
                    flushedInOp, lastSignalArg, idxHist >>

\* no message is pending: Tick, then Update and Draw unless paused (Sleep)
Run_Frame ==
    /\ pc = "Run"
    /\ UNCHANGED << source, calc, camera >>
    /\ UNCHANGED << recorded, heaps, fenceAtEntry >>
    /\ ~window.quitPosted
    /\ Start(~g_DxApp.m_IsPaused)
    /\ Goto(IF g_DxApp.m_IsPaused THEN "Run" ELSE "Update")
    /\ UNCHANGED << g_DxApp, gpu, window, enabled, nextId, build, failures,
                    flushedInOp, lastSignalArg, idxHist >>

\* ------------------------------------------- the upload of any array
\* the values of a memory unit, and the non-empty arrays of up to MaxLen units
Bytes == { 0, 1 }
ByteSeqs == UNION { [ 1 .. n -> Bytes ] : n \in 1 .. MaxLen }

\* the program before WinMain runs, about to upload any array as its vertex
\* array
InitUpload ==
    /\ InitProgram
    /\ calc = InitCalc
    /\ \E data \in ByteSeqs : source = [ vertices |-> data, indices |-> CubeIndices ]

\* startup up to the return of OnInitialize; the message loop does not run
NextUpload ==
    \/ WinMain
    \/ InitD3D_Factory
    \/ InitD3D_Device
    \/ InitD3D_Fence
    \/ InitD3D_Msaa
    \/ CreateCommandObjects
    \/ InitD3D_SwapChain
    \/ CreateDescriptorHeaps
    \/ WM_CREATE_InitFailed
    \/ Flush_Signal
    \/ Flush_Check
    \/ Flush_SetEvent
    \/ Flush_Wait
    \/ Flush_Return
    \/ GPU_Execute
    \/ OnResize_Enter
    \/ OnResize_Reset
    \/ OnResize_ResizeBuffers
    \/ OnResize_GetBuffers
    \/ OnResize_Depth
    \/ OnResize_Close
    \/ OnResize_Viewport
    \/ OnResize_Return
    \/ OnInitialize_Reset
    \/ BuildDescriptorHeaps
    \/ BuildConstantBuffers
    \/ BuildRootSignature
    \/ BuildShadersAndInputLayout
    \/ BuildBoxGeometry
    \/ BuildPSO
    \/ OnInitialize_Close
    \/ OnInitialize_Return

SpecUpload == InitUpload /\ [][NextUpload]_vars

\* --------------------------------------- CalcConstantBufferByteSize alone
\* the byte sizes the function is called with: the small ones and the ones
\* within MaxByteSize of the largest UINT
CalcInputs ==
    { U32(n) : n \in 0 .. MaxByteSize }
    \cup { << U16 - 1, U16 - 1 - n >> : n \in 0 .. MaxByteSize }

\* a call with any of these inputs is about to be made
InitCalcOnly ==
    /\ InitProgram
    /\ source = InitSource
    /\ \E byteSize \in CalcInputs :
          calc = [ byteSize |-> byteSize, result |-> U32(0), called |-> FALSE ]

\* the call
CalcCall ==
    /\ ~calc.called
    /\ calc' = Called(calc.byteSize)
    /\ UNCHANGED << pc, stack, g_DxApp, gpu, window, enabled, nextId, build,
                    failures, flushedInOp, lastSignalArg, idxHist, ops, source,
                    camera, recorded, heaps, fenceAtEntry >>

NextCalc == CalcCall

SpecCalc == InitCalcOnly /\ [][NextCalc]_vars

\* ------------------------------------------------------------ the mouse
\* 0.1f and Pi - 0.1f, 3.f and 15.f in the units of the camera
PhiMin == 100000
PhiMax == Pi - 100000
RadiusMin == 600
RadiusMax == 3000
\* XMConvertToRadians(0.25f): the angle of one pixel of a drag
RadiansPerPixel == 4363

\* the client coordinates and the button states a mouse message carries
MousePoints == { << 0, 0 >>, << 100, 600 >>, << 600, 100 >> }
BtnStates == { { }, { "MK_LBUTTON" }, { "MK_RBUTTON" }, { "MK_MBUTTON" },
               { "MK_LBUTTON", "MK_RBUTTON" } }

\* a clamp without its upper limit
Clamp_NoHigh(x, low, high) == IF x < low THEN low ELSE x

\* MathHelper::Clamp
Clamp(x, low, high) == IF x < low THEN low ELSE IF x > high THEN high ELSE x

\* WM_LBUTTONDOWN, WM_MBUTTONDOWN, WM_RBUTTONDOWN: OnMouseDown
OnMouseDown(btnState, x, y) ==
    /\ Dispatching
    /\ camera.events < MaxMouse
    /\ camera' = [ camera EXCEPT !.m_LastMousePos = << x, y >>,
                                 !.events = @ + 1 ]
    /\ UNCHANGED << pc, stack, g_DxApp, gpu, window, enabled, nextId, build,
                    failures, flushedInOp, lastSignalArg, idxHist, ops, source,
                    calc, recorded, heaps, fenceAtEntry >>

\* WM_LBUTTONUP, WM_MBUTTONUP, WM_RBUTTONUP: OnMouseUp releases the capture
OnMouseUp(btnState, x, y) ==
    /\ Dispatching
    /\ camera.events < MaxMouse
    /\ camera' = [ camera EXCEPT !.events = @ + 1 ]
    /\ UNCHANGED << pc, stack, g_DxApp, gpu, window, enabled, nextId, build,
                    failures, flushedInOp, lastSignalArg, idxHist, ops, source,
                    calc, recorded, heaps, fenceAtEntry >>

\* WM_MOUSEMOVE: OnMouseMove rotates with the left button, changes the radius
\* with the right button alone, and records the position
OnMouseMove(btnState, x, y) ==
    /\ Dispatching
    /\ camera.events < MaxMouse
    /\ LET dx == x - camera.m_LastMousePos[1]
           dy == y - camera.m_LastMousePos[2]
           moved ==
             IF "MK_LBUTTON" \in btnState
             THEN [ camera EXCEPT
                      !.m_Theta = @ + RadiansPerPixel * dx,
                      !.m_Phi = Clamp(@ + RadiansPerPixel * dy, PhiMin, PhiMax) ]
             ELSE IF "MK_RBUTTON" \in btnState
             THEN [ camera EXCEPT
                      !.m_Radius = Clamp(@ + (dx - dy), RadiusMin, RadiusMax) ]
             ELSE camera
       IN  camera' = [ moved EXCEPT !.m_LastMousePos = << x, y >>,
                                    !.events = @ + 1 ]
    /\ UNCHANGED << pc, stack, g_DxApp, gpu, window, enabled, nextId, build,
                    failures, flushedInOp, lastSignalArg, idxHist, ops, source,
                    calc, recorded, heaps, fenceAtEntry >>

\* startup, then the mouse messages of the message loop
NextMouse ==
    \/ NextUpload
    \/ \E p \in MousePoints : OnMouseDown({ "MK_LBUTTON" }, p[1], p[2])
    \/ \E p \in MousePoints : OnMouseUp({ }, p[1], p[2])
    \/ \E b \in BtnStates, p \in MousePoints : OnMouseMove(b, p[1], p[2])

SpecMouse == Init /\ [][NextMouse]_vars

\* --------------------------------------------------------------- Next
Next ==
    \/ WinMain
    \/ InitD3D_Factory
    \/ InitD3D_Device
    \/ InitD3D_Fence
    \/ InitD3D_Msaa
    \/ CreateCommandObjects
    \/ InitD3D_SwapChain
    \/ CreateDescriptorHeaps
    \/ WM_CREATE_InitFailed
    \/ Flush_Signal
    \/ Flush_Check
    \/ Flush_SetEvent
    \/ Flush_Wait
    \/ Flush_Return
    \/ GPU_Execute
    \/ OnResize_Enter
    \/ OnResize_Reset
    \/ OnResize_ResizeBuffers
    \/ OnResize_GetBuffers
    \/ OnResize_Depth
    \/ OnResize_Close
    \/ OnResize_Viewport
    \/ OnResize_Return
    \/ SetMsaaEnabled_Return
    \/ OnInitialize_Reset
    \/ BuildDescriptorHeaps
    \/ BuildConstantBuffers
    \/ BuildRootSignature
    \/ BuildShadersAndInputLayout
    \/ BuildBoxGeometry
    \/ BuildPSO
    \/ OnInitialize_Close
    \/ OnInitialize_Return
    \/ Update
    \/ Draw_AllocatorReset
    \/ Draw_ListReset
    \/ Draw_Record
    \/ Draw_Execute
    \/ Draw_Present
    \/ Draw_Return
    \/ \E inactive \in BOOLEAN : WM_ACTIVATE(inactive)
    \/ \E wParam \in SizeParams, size \in ClientSizes \cup { << 0, 0 >> } :
          WM_SIZE(wParam, size)
    \/ WM_ENTERSIZEMOVE
    \/ WM_EXITSIZEMOVE
    \/ WM_KEYUP_F2
    \/ SetMsaaEnabled_Same
    \/ WM_DESTROY
    \/ Run_Quit
    \/ Run_Frame

Spec == Init /\ [][Next]_vars

\* the program without size-move and MSAA toggles: startup, frames, focus
\* changes, WM_SIZE and the end of the window
NextLoop ==
    \/ NextUpload
    \/ Update
    \/ Draw_AllocatorReset
    \/ Draw_ListReset
    \/ Draw_Record
    \/ Draw_Execute
    \/ Draw_Present
    \/ Draw_Return
    \/ \E inactive \in BOOLEAN : WM_ACTIVATE(inactive)
    \/ \E wParam \in SizeParams, size \in ClientSizes \cup { << 0, 0 >> } :
          WM_SIZE(wParam, size)
    \/ WM_DESTROY
    \/ Run_Quit
    \/ Run_Frame

\* the thread of the message loop keeps running: a retrievable WM_QUIT is
\* retrieved
SpecFair == Init /\ [][NextLoop]_vars /\ WF_vars(Run_Quit)

\* the GPU retires what is submitted to it, and the thread inside
\* FlushCommandQueue keeps running
SpecFlush ==
    /\ Init
    /\ [][NextLoop]_vars
    /\ WF_vars(GPU_Execute)
    /\ WF_vars(Flush_Signal)
    /\ WF_vars(Flush_Check)
    /\ WF_vars(Flush_SetEvent)
    /\ WF_vars(Flush_Wait)

\* ------------------------------------------------- dragging the frame
\* client-area sizes reported while the user drags the frame
DragSizes == { << 300, 250 >>, << 640, 480 >> }

\* the WM_SIZE the window sends while its frame is dragged
WM_SIZE_Dragging(size) ==
    /\ g_DxApp.m_IsResizing
    /\ WM_SIZE("SIZE_RESTORED", size)

\* startup, then size-moves: WM_ENTERSIZEMOVE, any number of WM_SIZE with
\* SIZE_RESTORED while the frame is dragged, WM_EXITSIZEMOVE
NextSizeMove ==
    \/ NextUpload
    \/ WM_ENTERSIZEMOVE
    \/ \E size \in DragSizes : WM_SIZE_Dragging(size)
    \/ WM_EXITSIZEMOVE

SpecSizeMove == Init /\ [][NextSizeMove]_vars


\* ------------------------------------------------------------- claims
\* C1: on every return path of FlushCommandQueue the fence's completed value
\* has reached m_CurrentFence
C1_FlushPostcondition ==
    pc \in FlushRet => gpu.completed >= g_DxApp.m_CurrentFence

\* command lists submitted by a Draw that the GPU has not retired
DrawInFlight ==
    \E i \in 1 .. Len(gpu.queue) :
        gpu.queue[i].kind = "cmds" /\ gpu.queue[i].src = "draw"

\* C2: a Draw has reset the allocator, and goes on to re-record the list,
\* only with every earlier Draw's GPU work retired
C2_NoResetWhileDrawInFlight ==
    pc \in { "Draw_listReset", "Draw_record" } => ~DrawInFlight

\* the step of FlushCommandQueue that increments the counter and calls Signal
FlushSignalStep == pc = "FlushCommandQueue" /\ pc' # "FlushCommandQueue"

\* C3: m_CurrentFence starts at 0, each FlushCommandQueue call adds exactly
\* one, no other step changes it, and every Signal call passes a value above
\* the one passed before
C3_FenceCounter ==
    /\ g_DxApp.m_CurrentFence = 0
    /\ [][ IF FlushSignalStep
           THEN /\ g_DxApp'.m_CurrentFence = g_DxApp.m_CurrentFence + 1
                /\ lastSignalArg' > lastSignalArg
           ELSE /\ g_DxApp'.m_CurrentFence = g_DxApp.m_CurrentFence
                /\ lastSignalArg' = lastSignalArg ]_vars

C3_Witness ==
    /\ g_DxApp.m_CurrentFence >= 2
    /\ lastSignalArg = g_DxApp.m_CurrentFence

\* C4: completed fence value <= last signaled value <= m_CurrentFence
C4_FenceOrder ==
    /\ gpu.completed <= gpu.signaled
    /\ gpu.signaled <= g_DxApp.m_CurrentFence

C4_Witness ==
    /\ pc = "Flush_wait"
    /\ 0 < gpu.completed
    /\ gpu.completed < gpu.signaled

\* the resources OnResize and CreateSwapChain release, resize and recreate
Backing(app) ==
    << app.m_SwapChain.id, app.m_SwapChain.bufs, app.m_SwapChain.w,
       app.m_SwapChain.h, app.m_SwapChainBuffer, app.m_DepthStencilBuffer >>

OnResizeBody == { "OnResize", "OnResize_reset", "OnResize_resizeBuffers",
                  "OnResize_getBuffers", "OnResize_depth", "OnResize_close",
                  "OnResize_viewport" }

\* a step taken inside OnResize or SetMsaaEnabled
InResizeOrMsaaStep ==
    \/ pc \in OnResizeBody
    \/ pc = "Run" /\ enabled' # << >>

\* C5: inside OnResize and SetMsaaEnabled no swap-chain or depth resource is
\* released, resized or recreated before a FlushCommandQueue call has
\* returned inside that operation
C5_FlushBeforeRelease ==
    [][ (InResizeOrMsaaStep /\ Backing(g_DxApp)' # Backing(g_DxApp))
            => flushedInOp ]_vars

\* C6: every OnResize starts with the device, the swap chain and the command
\* allocator existing
C6_OnResizePrecondition ==
    pc = "OnResize" => OnResizeAsserts(g_DxApp)

\* C7: while a frame is recorded, submitted and presented the swap chain and
\* the depth buffer, where both exist, have the same sample count and quality
C7_SampleDescAgree ==
    ( /\ pc \in { "Draw_record", "Draw_execute", "Draw_present" }
      /\ g_DxApp.m_SwapChain.id # 0
      /\ g_DxApp.m_DepthStencilBuffer.id # 0 )
        => g_DxApp.m_SwapChain.sample = g_DxApp.m_DepthStencilBuffer.sample

\* C8: SetMsaaEnabled(e) with m_MsaaEnabled = e changes no application state,
\* creates nothing, submits nothing and returns without a flush
C8_SameStateIsNoOp ==
    [][ (enabled = << >> /\ enabled' = << g_DxApp.m_MsaaEnabled >>)
            => /\ g_DxApp' = g_DxApp
               /\ gpu' = gpu
               /\ nextId' = nextId
               /\ pc' = "SetMsaaEnabled_ret_unchanged"
               /\ stack' = << "Run" >> ]_vars

C8_Witness ==
    /\ pc = "SetMsaaEnabled_ret_unchanged"
    /\ g_DxApp.m_SwapChain.id # 0
    /\ g_DxApp.m_CurrentFence > 0

\* the step of Draw in which Present succeeded
PresentOkStep == pc = "Draw_present" /\ pc' = "FlushCommandQueue"

\* C9: m_CurrentBackBuffer is in 0 .. N-1, a successful Draw replaces i by
\* (i + 1) mod N, and N successful Draws with no resize between them bring
\* the index back to where it was
C9_BackBufferCycle ==
    /\ [](g_DxApp.m_CurrentBackBuffer \in 0 .. s_SwapChainBufferCount - 1)
    /\ [](Len(idxHist) = s_SwapChainBufferCount + 1
            => idxHist[s_SwapChainBufferCount + 1] = idxHist[1])
    /\ [][ PresentOkStep =>
             g_DxApp'.m_CurrentBackBuffer
               = (g_DxApp.m_CurrentBackBuffer + 1) % s_SwapChainBufferCount ]_vars

C9_Witness ==
    /\ Len(idxHist) = s_SwapChainBufferCount + 1
    /\ pc = "Draw_ret_ok"

\* what C10 states of the state an OnResize call leaves
ResizeResult(app) ==
    /\ app.m_SwapChain.count = s_SwapChainBufferCount
    /\ app.m_ScreenViewport = << 0, 0, app.m_ClientWidth, app.m_ClientHeight >>
    /\ app.m_ScissorRect = << 0, 0, app.m_ClientWidth, app.m_ClientHeight >>
    /\ app.m_Proj.kind = "perspective"
    /\ app.m_Proj.aspect[1] * app.m_ClientHeight
         = app.m_Proj.aspect[2] * app.m_ClientWidth

AboveMinTrackSize(app) ==
    app.m_ClientWidth > MinTrackSize /\ app.m_ClientHeight > MinTrackSize

C19_Inputs == << 1, 255, 256, 257, 1024 >>
C19_Outputs == << 256, 256, 256, 512, 1024 >>
C19_RoundUp ==
    calc.called =>
        \A k \in DOMAIN C19_Inputs :
            calc.byteSize = U32(C19_Inputs[k]) => calc.result = U32(C19_Outputs[k])

C19_Witness ==
    /\ calc.called
    /\ calc.byteSize = U32(257)
    /\ calc.result = U32(512)

\* C18: Update writes the constant buffer only when no submitted draw
\* commands, which read it, are unretired
C18_UpdateWhenIdle ==
    (pc = "Update" /\ g_DxApp.m_ObjectCB.m_MappedData) => ~DrawInFlight

\* a WM_SIZE that reports a maximized or restored window which was neither
\* minimized nor being dragged, and so calls OnResize
SizeStep ==
    /\ pc = "Run"
    /\ pc' = "OnResize"
    /\ enabled' = << >>
    /\ ~g_DxApp.m_IsMinimized
    /\ ~g_DxApp.m_IsResizing

\* C16: a resize event leaves the pause flag as it was, whatever the focus
\* state: here for the single WM_SIZE events (maximized, restored)
C16_ResizeKeepsPause ==
    [][SizeStep => g_DxApp'.m_IsPaused = g_DxApp.m_IsPaused]_vars

\* the steps of Draw that make a call which can fail, and the returns that
\* follow a failed call
DrawBody == { "Draw", "Draw_listReset", "Draw_record", "Draw_present" }
DrawFailed == DrawRet \ { "Draw_ret_ok" }

\* C15: when the allocator reset, the list reset, Close or Present fails,
\* Draw returns at once: the failing step submits nothing and leaves the
\* back-buffer index alone, and the next step of the CPU is the return to the
\* run loop, with nothing executed, presented or advanced on the way
C15_DrawStopsOnFailure ==
    [][ /\ (pc \in DrawBody /\ failures' > failures) =>
              /\ pc' \in DrawFailed
              /\ gpu' = gpu
              /\ g_DxApp'.m_CurrentBackBuffer = g_DxApp.m_CurrentBackBuffer
              /\ g_DxApp'.m_SwapChain = g_DxApp.m_SwapChain
        /\ (pc \in DrawFailed /\ pc' # pc) =>
              /\ pc' = "Run"
              /\ g_DxApp' = g_DxApp
              /\ gpu' = gpu ]_vars

C15_Witness ==
    /\ pc = "Draw_ret_presentFailed"
    /\ DrawInFlight
    /\ g_DxApp.m_CurrentBackBuffer = 0

\* the SampleDesc of a resource created with MSAA on and m_4xMsaaQuality
\* zero: the quality is 0u - 1
QualityFromZero == << MsaaSampleCount, U32Dec(U32(0)) >>

\* C17: with zero quality levels reported, no swap chain and no depth buffer
\* is ever created with a quality derived from zero
C17_NoQualityFromZero ==
    /\ g_DxApp.m_SwapChain.id # 0 => g_DxApp.m_SwapChain.sample # QualityFromZero
    /\ g_DxApp.m_DepthStencilBuffer.id # 0 =>
           g_DxApp.m_DepthStencilBuffer.sample # QualityFromZero

\* C14: after a failed initialization step no Update is ever executed: when
\* the first thing the run loop starts is a frame, no call has failed before
C14_NoFrameAfterFailedInit ==
    (pc = "Update" /\ ops = 1) => failures = 0

\* C13: while the run loop draws a frame after a startup in which no call
\* failed, no upload resource is held: the geometry is as DisposeUploaders
\* leaves it
C13_UploadersReleased ==
    (pc \in DrawBody /\ failures = 0) =>
        g_DxApp.m_BoxGeo = DisposeUploaders(g_DxApp.m_BoxGeo)

\* the upload resource a buffer's copy command reads
UploaderOf(geo, b) ==
    IF b = "vb" THEN geo.m_VertexBufferUploader ELSE geo.m_IndexBufferUploader

\* the copy into buffer b is recorded and OnInitialize has not yet returned
\* from the flush that follows its submission
CopyUnflushed(b) ==
    /\ b \in RecordedCopies(g_DxApp.m_BoxGeo)
    /\ \/ pc \in { "BuildPSO", "OnInitialize_close" }
       \/ \E i \in 1 .. Len(stack) : stack[i] = "OnInitialize_ret_ok"

\* the copy into buffer b is submitted and the GPU has not executed it
CopyUnretired(b) ==
    \E i \in 1 .. Len(gpu.queue) : b \in gpu.queue[i].copies

\* C12: the upload resource of the vertex buffer and of the index buffer is
\* held as long as the copy that reads it is recorded but not submitted,
\* submitted but not retired, or the flush after the submission has not
\* returned
C12_UploadersOutliveCopies ==
    \A b \in { "vb", "ib" } :
        (CopyUnflushed(b) \/ CopyUnretired(b)) =>
            UploaderOf(g_DxApp.m_BoxGeo, b).exists

C12_Witness ==
    /\ pc = "Flush_wait"
    /\ CopyUnretired("vb")
    /\ CopyUnretired("ib")
    /\ g_DxApp.m_BoxGeo.m_VertexBufferUploader.exists
    /\ g_DxApp.m_BoxGeo.m_IndexBufferUploader.exists

\* C11: once OnInitialize is back from a flush that has completed, every
\* GPU-local buffer CreateDefaultBuffer returned holds exactly the units of
\* its source array, over the whole byte size
C11_UploadIdentical ==
    (pc = "OnInitialize_ret_ok" /\ gpu.completed >= g_DxApp.m_CurrentFence) =>
        /\ g_DxApp.m_BoxGeo.m_VertexBufferGPU => gpu.vram.vb = source.vertices
        /\ g_DxApp.m_BoxGeo.m_IndexBufferGPU => gpu.vram.ib = source.indices

C11_Witness ==
    /\ pc = "OnInitialize_ret_ok"
    /\ gpu.completed >= g_DxApp.m_CurrentFence
    /\ g_DxApp.m_BoxGeo.m_VertexBufferGPU
    /\ Len(source.vertices) > 1
    /\ source.vertices[1] # source.vertices[2]
    /\ gpu.vram.vb = source.vertices

\* the steps in which the run loop starts an Update or a Draw
FrameStarts == pc' \in { "Update", "Draw" } /\ pc' # pc

\* C20: the WM_DESTROY that ends the window posts the quit message; once it
\* is posted no Update or Draw is started any more, and the run loop
\* eventually ends, Run returning the wParam of the quit message
C20_QuitEndsLoop ==
    /\ [][(window.alive /\ ~window'.alive) => window'.quitPosted]_vars
    /\ [][window.quitPosted => ~FrameStarts]_vars
    /\ window.quitPosted ~> (pc = "exited" /\ window.exitCode = << 0 >>)

C20_Witness ==
    /\ pc = "exited"
    /\ window.exitCode = << 0 >>
    /\ ops = MaxOps

\* C29: whenever control is back in the message loop after OnResize,
\* OnInitialize or Draw, the command list is closed
C29_ListClosedInLoop ==
    (pc = "Run" /\ window.alive) => g_DxApp.m_CommandList = "closed"

\* C30: back in the message loop after any Draw, OnResize or SetMsaaEnabled
\* call, m_CurrentBackBuffer equals the swap chain's own back-buffer index
C30_IndexTracksSwapChain ==
    (pc = "Run" /\ g_DxApp.m_SwapChain.id # 0) =>
        g_DxApp.m_CurrentBackBuffer = g_DxApp.m_SwapChain.cur

\* the positions of the CPU inside Update and Draw
InFrame == { "Update" } \cup DrawBody \cup { "Draw_execute" } \cup DrawRet

\* C28: an Update is started only by the run loop, with the pause flag false
\* and no quit pending, a Draw only by the Update of that iteration, and the
\* pause flag stays false for the whole frame; with the pause flag true a step
\* of the run loop that dispatches no handler leaves the fence counter and
\* the back-buffer index alone
C28_FrameOnlyUnpaused ==
    [][ /\ (pc' = "Update" /\ pc # "Update") =>
              (pc = "Run" /\ ~g_DxApp.m_IsPaused /\ ~window.quitPosted)
        /\ (pc' = "Draw" /\ pc # "Draw") => pc = "Update"
        /\ pc' \in InFrame => ~g_DxApp'.m_IsPaused
        /\ (pc = "Run" /\ g_DxApp.m_IsPaused /\ pc' \in { "Run" } \cup InFrame) =>
              /\ pc' = "Run"
              /\ g_DxApp'.m_CurrentFence = g_DxApp.m_CurrentFence
              /\ g_DxApp'.m_CurrentBackBuffer = g_DxApp.m_CurrentBackBuffer
      ]_vars

\* the loop is paused after a frame was drawn and presented
C28_Witness ==
    /\ pc = "Run"
    /\ window.alive
    /\ g_DxApp.m_IsPaused
    /\ g_DxApp.m_CurrentBackBuffer = 1
    /\ g_DxApp.m_CurrentFence >= 3

\* C26: when OnResize calls ResizeBuffers the application holds no handle to
\* a swap-chain buffer or to the depth buffer; once ResizeBuffers succeeded
\* the back-buffer index is 0; an OnResize that ran to its end flushed twice,
\* before the release and after the depth-buffer list, and m_CurrentFence is
\* 2 above its value at entry
C26_ResizeSequence ==
    /\ pc = "OnResize_resizeBuffers" =>
          /\ g_DxApp.m_SwapChainBuffer = NullHandles
          /\ g_DxApp.m_DepthStencilBuffer = NullResource
          /\ g_DxApp.m_CurrentFence = fenceAtEntry[1] + 1
    /\ pc \in { "OnResize_getBuffers", "OnResize_depth", "OnResize_close" } =>
          /\ g_DxApp.m_CurrentBackBuffer = 0
          /\ g_DxApp.m_CurrentFence = fenceAtEntry[1] + 1
    /\ pc = "OnResize_ret_ok" =>
          /\ g_DxApp.m_CurrentBackBuffer = 0
          /\ g_DxApp.m_CurrentFence = fenceAtEntry[1] + 2

\* an OnResize ran to its end after a frame had left handles to release and
\* the index at 1
C26_Witness ==
    /\ pc = "OnResize_ret_ok"
    /\ fenceAtEntry = << 4 >>
    /\ g_DxApp.m_CurrentFence = 6
    /\ idxHist = << 0 >>

\* C22: with a GPU that retires what is submitted, every FlushCommandQueue
\* call returns: a fence that reached the value before the check skips the
\* wait, one that reached it before the event was registered leaves the event
\* set, one that reaches it later sets the event; the wait ends only through
\* the event, never through a timeout
C22_FlushReturns ==
    /\ []((pc = "Flush_wait" /\ gpu.completed >= g_DxApp.m_CurrentFence) =>
              gpu.event = "signaled")
    /\ [][(pc = "Flush_wait" /\ pc' # "Flush_wait") =>
              (gpu.event = "signaled" /\ pc' = "Flush_ret_waited")]_vars
    /\ (pc = "FlushCommandQueue") ~> (pc \in FlushRet)

\* the fence reached the value after the check and before the event is
\* registered
C22_Witness ==
    /\ pc = "Flush_setEvent"
    /\ gpu.completed >= g_DxApp.m_CurrentFence
    /\ gpu.queue = << >>

\* the three camera coordinates
Coordinates(c) == << c.m_Theta, c.m_Phi, c.m_Radius >>

C25_Expected(created, kind, byteSize) ==
    IF created
    THEN << [ op |-> "ResourceBarrier", res |-> [ kind |-> kind, id |-> 0 ],
              before |-> "COMMON", after |-> "COPY_DEST", bytes |-> 0 ],
            [ op |-> "CopyBufferRegion", res |-> [ kind |-> kind, id |-> 0 ],
              before |-> "", after |-> "", bytes |-> byteSize ],
            [ op |-> "ResourceBarrier", res |-> [ kind |-> kind, id |-> 0 ],
              before |-> "COPY_DEST", after |-> "GENERIC_READ", bytes |-> 0 ] >>
    ELSE << >>

\* C25: after the two CreateDefaultBuffer calls of BuildBoxGeometry the list
\* holds, for each call that returned a buffer, the transition from common to
\* copy-destination, the copy of the whole byte size and the transition to
\* generic-read, in this order, and nothing for a call that returned null
C25_ThreeCommands ==
    pc = "BuildPSO" =>
        recorded =
            C25_Expected(g_DxApp.m_BoxGeo.m_VertexBufferGPU, "vb", Len(source.vertices))
            \o C25_Expected(g_DxApp.m_BoxGeo.m_IndexBufferGPU, "ib", Len(source.indices))

C25_Witness ==
    /\ pc = "BuildPSO"
    /\ Len(recorded) = 6
    /\ Len(source.vertices) = MaxLen

\* C27: at the end of an OnResize that ran through, descriptor i of the RTV
\* heap describes swap-chain buffer i, whose handle the application holds at
\* index i, so that for every value of the back-buffer index
\* CurrentBackBufferView is the view of the resource CurrentBackBuffer returns
C27_ViewsMatchBuffers ==
    pc = "OnResize_ret_ok" =>
        \A i \in 0 .. s_SwapChainBufferCount - 1 :
            LET app == [ g_DxApp EXCEPT !.m_CurrentBackBuffer = i ]
            IN  /\ heaps.rtv[i] = g_DxApp.m_SwapChain.bufs[i]
                /\ CurrentBackBuffer(app) # 0
                /\ CurrentBackBufferView(app, heaps) = CurrentBackBuffer(app)

\* an OnResize started by the message loop has replaced the views of startup
C27_Witness ==
    /\ pc = "OnResize_ret_ok"
    /\ ops > 0
    /\ heaps.rtv[1] = g_DxApp.m_SwapChain.bufs[1]
    /\ heaps.rtv[1] > 4

\* the commands that name a back buffer, by handle or through its view
NamesBackBuffer(c) ==
    c.op \in { "ResourceBarrier", "ClearRenderTargetView", "OMSetRenderTargets" }

\* the step of Draw in which Present succeeded
PresentDone == pc = "Draw_present" /\ pc' = "FlushCommandQueue"

\* C23: the transitions, the clear and the render-target binding a Draw has
\* recorded all name the buffer at the index the Draw started with; the Draw
\* closes the list, then submits it, then presents, advances the index in the
\* step of the successful Present and only then flushes; no other step of a
\* Draw changes the index
C23_DrawOrder ==
    /\ [](pc = "Draw_execute" =>
            /\ Len(recorded) = 5
            /\ \A i \in 1 .. Len(recorded) :
                  (NamesBackBuffer(recorded[i]) =>
                      recorded[i].res =
                          Texture(g_DxApp.m_SwapChainBuffer[idxHist[Len(idxHist)]])))
    /\ [][ /\ (pc = "Draw_record" /\ pc' # pc) =>
                 /\ pc' \in { "Draw_execute", "Draw_ret_closeFailed", "crash" }
                 /\ gpu' = gpu
                 /\ g_DxApp'.m_SwapChain = g_DxApp.m_SwapChain
           /\ (pc = "Draw_execute" /\ pc' # pc) =>
                 /\ pc' = "Draw_present"
                 /\ g_DxApp.m_CommandList = "closed"
                 /\ gpu'.queue = Append(gpu.queue, Cmds("draw", { }, recorded))
                 /\ g_DxApp'.m_SwapChain = g_DxApp.m_SwapChain
           /\ PresentDone =>
                 /\ g_DxApp'.m_CurrentFence = g_DxApp.m_CurrentFence
                 /\ g_DxApp'.m_SwapChain.cur =
                       (g_DxApp.m_SwapChain.cur + 1) % s_SwapChainBufferCount
                 /\ g_DxApp'.m_CurrentBackBuffer =
                       (g_DxApp.m_CurrentBackBuffer + 1) % s_SwapChainBufferCount
                 /\ stack' = << "Draw_ret_ok" >> \o stack
           /\ (pc \in DrawBody \cup { "Draw_execute" } /\ ~PresentDone) =>
                 g_DxApp'.m_CurrentBackBuffer = g_DxApp.m_CurrentBackBuffer
        ]_vars

\* the second frame is recorded, for the buffer at index 1
C23_Witness ==
    /\ pc = "Draw_execute"
    /\ g_DxApp.m_CurrentBackBuffer = 1
    /\ recorded[1].res = Texture(g_DxApp.m_SwapChain.bufs[1])

\* C24: every barrier, clear and copy the GPU has executed found its
\* resource in the state the command needs; at the start and at every return
\* of a Draw every back buffer that exists is in the present state
C24_BarriersMatchStates ==
    /\ gpu.hazard = { }
    /\ pc \in { "Draw" } \cup DrawRet =>
          \A i \in 0 .. s_SwapChainBufferCount - 1 :
              g_DxApp.m_SwapChainBuffer[i] # 0 =>
                  StateOf(gpu.states, g_DxApp, Texture(g_DxApp.m_SwapChainBuffer[i]))
                      = STATE_PRESENT

\* C32: after any sequence of WM_ACTIVATE, WM_SIZE, WM_ENTERSIZEMOVE and
\* WM_EXITSIZEMOVE the pause flag and the timer agree: the timer is stopped
\* exactly when the application is paused
C32_PauseMatchesTimer ==
    pc = "Run" => (g_DxApp.m_IsPaused <=> g_DxApp.m_TimerStopped)

\* C33: while the window is minimized the run loop draws no frame, whatever
\* events arrived since the minimize
C33_NoFrameWhileMinimized ==
    g_DxApp.m_IsMinimized => pc \notin InFrame

\* order of two UINTs
U32Leq(x, y) == x[1] < y[1] \/ (x[1] = y[1] /\ x[2] <= y[2])

\* y - x for two UINTs x <= y, as a number; U16 stands for every difference
\* of U16 or more
U32Minus(y, x) ==
    IF y[1] - x[1] > 1 THEN U16
    ELSE IF (y[1] - x[1]) * U16 + y[2] - x[2] > U16 THEN U16
    ELSE (y[1] - x[1]) * U16 + y[2] - x[2]

\* C34: for every UINT x, CalcConstantBufferByteSize(x) is the smallest
\* multiple of 256 not below x: a multiple of 256, at least x and less than
\* x + 256, also for the x within 255 of the largest UINT
C34_SmallestMultiple ==
    calc.called =>
        /\ calc.result[2] % 256 = 0
        /\ U32Leq(calc.byteSize, calc.result)
        /\ U32Minus(calc.result, calc.byteSize) < 256

\* the client size the handlers recorded
ClientSize(app) == << app.m_ClientWidth, app.m_ClientHeight >>

\* the size of the buffers: of the swap chain and of the depth buffer
BufferSizes(app) ==
    << << app.m_SwapChain.w, app.m_SwapChain.h >>,
       << app.m_DepthStencilBuffer.w, app.m_DepthStencilBuffer.h >> >>

\* C35: between WM_ENTERSIZEMOVE and WM_EXITSIZEMOVE a WM_SIZE with
\* SIZE_RESTORED on a window neither minimized nor maximized records the
\* client size and does nothing else, so no OnResize runs while the frame is
\* dragged; the client size is written by WM_SIZE only; WM_EXITSIZEMOVE
\* calls OnResize once, with the client size recorded last, and OnResize
\* returns to the message loop; at its normal end the buffers have that size
C35_SizeMoveDefersResize ==
    /\ [][\A size \in DragSizes :
            ( /\ WM_SIZE("SIZE_RESTORED", size)
              /\ g_DxApp.m_D3dDevice
              /\ g_DxApp.m_IsResizing
              /\ ~g_DxApp.m_IsMinimized
              /\ ~g_DxApp.m_IsMaximized ) =>
                /\ g_DxApp' = [ g_DxApp EXCEPT !.m_ClientWidth = size[1],
                                                !.m_ClientHeight = size[2] ]
                /\ pc' = "Run"
                /\ UNCHANGED << stack, gpu, nextId, recorded, heaps, ops >>]_vars
    /\ [](g_DxApp.m_IsResizing => pc = "Run")
    /\ [][ClientSize(g_DxApp') # ClientSize(g_DxApp) =>
            \E size \in DragSizes :
                WM_SIZE("SIZE_RESTORED", size) /\ ClientSize(g_DxApp') = size]_vars
    /\ [][(g_DxApp.m_IsResizing /\ ~g_DxApp'.m_IsResizing) =>
            /\ pc' = "OnResize"
            /\ stack' = << "Run" >>
            /\ ClientSize(g_DxApp') = ClientSize(g_DxApp)
            /\ BufferSizes(g_DxApp') = BufferSizes(g_DxApp)]_vars
    /\ [][(pc \in OnResizeRet /\ pc' # pc) => (pc' = Head(stack) /\ stack' = Tail(stack))]_vars
    /\ [](pc = "OnResize_ret_ok" =>
            BufferSizes(g_DxApp) = << ClientSize(g_DxApp), ClientSize(g_DxApp) >>)

\* a second drag: WM_SIZE recorded 300 x 250 while the buffers kept the
\* 640 x 480 of the first drag, and WM_EXITSIZEMOVE has just called OnResize
C35_Witness ==
    /\ pc = "OnResize"
    /\ stack = << "Run" >>
    /\ ops = 2
    /\ ~g_DxApp.m_IsResizing
    /\ ClientSize(g_DxApp) = << 300, 250 >>
    /\ BufferSizes(g_DxApp) = << << 640, 480 >>, << 640, 480 >> >>

\* C31: while a frame is recorded, submitted and presented, the sample count
\* and quality the pipeline state object was created with are those of the
\* swap chain's buffers and of the depth buffer
C31_PsoSampleDescAgrees ==
    ( /\ pc \in { "Draw_record", "Draw_execute", "Draw_present" }
      /\ g_DxApp.m_PSO.id # 0
      /\ g_DxApp.m_SwapChain.id # 0
      /\ g_DxApp.m_DepthStencilBuffer.id # 0 )
        => /\ g_DxApp.m_PSO.sample = g_DxApp.m_SwapChain.sample
           /\ g_DxApp.m_PSO.sample = g_DxApp.m_DepthStencilBuffer.sample

\* Width and Height of a viewport, and right - left and bottom - top of a
\* scissor rectangle
ViewportSize(v) == << v[3], v[4] >>
ScissorSize(r) == << r[3] - r[1], r[4] - r[2] >>

\* C36: while a frame is recorded, submitted and presented, the viewport, the
\* scissor rectangle, the swap chain's buffers and the depth buffer have the
\* same width and height
C36_DimensionsAgree ==
    pc \in { "Draw_record", "Draw_execute", "Draw_present" } =>
        /\ ViewportSize(g_DxApp.m_ScreenViewport) = ScissorSize(g_DxApp.m_ScissorRect)
        /\ BufferSizes(g_DxApp) = << ViewportSize(g_DxApp.m_ScreenViewport),
                                     ViewportSize(g_DxApp.m_ScreenViewport) >>

====
